# Verification of FormSG

FormSG is a form builder for public servants: an admin builds a form, a
respondent fills it in, and the response reaches the admin by mail (email mode)
or as an end-to-end encrypted record (encrypt mode).  The backend is Node.js
with Express and MongoDB (`src/src/app`), the frontend AngularJS
(`src/src/public`), and the rules of form logic are shared (`src/src/shared`).

This directory holds TLA+ models of its protocols, the TLC runs that check
them on small instances, and TLAPS proofs for instances of every size.
Paths below are relative to the repository's root `src/`.

## 1. The system's components

### State, operations and interactions

| component | state | operations | talks to |
|---|---|---|---|
| field verification service (`verification.service.js`) | a *transaction* per opened form, with a hashed OTP, signature, retry count and times per field, removed by a TTL index | createTransaction, resetFieldInTransaction, getNewOtp, verifyOtp | the page; SMS and mail; MongoDB; bcrypt; the signing SDK |
| verifiable field in the page (`verifiable-field.client.component.js`) | view state, input, signature, timers | edit, get OTP, verify OTP, resend, cancel | the service, through calls that may be late or lost |
| form in the page (`submit-form.directive.js`) | the answers, the form state | advance logic, submit, success, failure | form logic; the submission routes |
| form logic (`shared/util/logic.ts`) | none (pure) | getVisibleFieldIds, getLogicUnitPreventingSubmit | the page and the server call the same code |
| submission routes (`public-forms.server.routes.js`) | the request: `req.form`, parsed responses, attachments | a chain of checks, save, mail or webhook, answer, confirmation mails | MongoDB, S3, the mail server, the webhook's receiver, reCAPTCHA, SingPass |
| mail service (`mail.service.js`) | retries waiting for their timeouts | sendNodeMail, retryNodeMail | the mail server |
| webhooks (`webhooks.*`) | `webhookResponses` of the submission | post, record | the receiver |
| bounce notifications (`sns.js`, `confirmOnNotification`) | `hasBounced` of the submission | mark | Amazon SNS |
| admin login (`authentication.server.controller.js`) | a *token* per email with hashed OTP and attempts (TTL index); sessions | checkuser, sendotp, verifyotp, signout | mail; MongoDB; the session store |
| form model and lifecycle (`form.server.model.ts`) | the form: fields, logic, status, authType, webhook, permissions | setters, validators, hooks | everything reads the form |
| form editing (`admin-forms.server.controller.js`) | the form | create, update, duplicate, copy, archive | concurrent admins' browsers |
| list of forms (`list-forms.client.controller.js` and the modals) | its own list, a modal with an index into it | open, create, duplicate, use a template, delete | form editing |
| builder (`admin-form.client.controller.js`, the tabs, `edit-fields-modal.client.controller.js`) | a copy of the form, the inputs' settings, the attachment budget, a field that is being edited | edit, save, revert | form editing |
| SingPass/CorpPass (`spcp.server.controller.js`) | a signed cookie | redirect, login, check at submission | the identity provider |
| MyInfo (`myinfo.*`) | hashes of prefilled answers (TTL) | prefill and hash, compare at submission | the MyInfo API |
| answers (`FieldValidatorProvider`, `fieldValidation`, `utils/attachment.js`) | none (pure) | validate an answer, validate and rename attachments | the page validates too, by other code |
| SMS service (`sms.service.ts`) | a cache of Twilio clients; message counts | send | Twilio, the secrets manager |
| response download (`submissions.client.factory.js`, `CsvMergedHeadersGenerator.js`) | worker threads, the CSV so far | stream, decrypt, merge headers | the admin's browser |
| responses tab (`view-responses.client.controller.js`) | a page of a table, the response shown | unlock, turn, open, step | the stored responses |
| examples (`admin-console.server.controller.js`, `examples-list.client.controller.js`) | pages of ranked queries | load, search, filter, open | submissions and statistics, read from MongoDB's secondaries |
| bill (`billing.client.controller.js`) | a table for a month and an e-service id | choose, search, export | logins |
| feedback (`feedback-form`, `view-feedback`) | the feedback of a form | give, count, read, export | the form's respondents, its admin |
| login page (`authentication.client.controller.js`) | the step, the user in localStorage | check the email, send, resend, verify | admin login |
| configuration, loaders, scripts | see section 6 | | |

### Where it is hard, and what makes it correct

* **Field verification.**  A handler reads a transaction, waits for bcrypt, the
  SMS gateway or MongoDB, and writes back; another request, the TTL monitor or
  the respondent's next edit comes in between.  Correct means: a signature for
  an answer goes only to whoever holds an OTP that was sent to that answer;
  hash and signature that are stored belong together; limits on attempts and
  resending hold; a removed transaction stays removed.
* **The page.**  Its calls are neither cancelled nor ordered.  Correct means:
  what the server accepts was verified, a valid input has a signature that
  covers it, the widget does not hang in its loading state.
* **Admin login.**  Several tokens may exist for one email, attempts are
  counted concurrently, tokens are removed by email.  Correct means: the limit
  on attempts is exact in both directions; a session had an OTP.
* **Form logic.**  A loop over rules that may be cyclic and in any order.
  Correct means: it ends, its result is the least set of fields closed under
  the rules, and the server finds what the page found although the page
  cleared hidden answers.
* **Submission.**  Two chains of callbacks and promises, partial failures
  whose effect may have happened, a snapshot of a form that is edited
  meanwhile, work that goes on after the answer.  Correct means: who is told of
  success has been received, a request that a check refuses leaves nothing, the
  work behind the answer ends as far as the calls that it waits for do.
* **Form editing.**  A handler reads a form, waits, and saves the whole arrays
  and the single settings of its copy; only arrays are guarded by a version.
  Correct means: of the arrays nothing comes that one request after the other
  would not give, and a form stays coherent and archived unless a save was made
  over a newer state.
* **Pages of an admin.**  Each keeps a copy of what the server has, an index
  into it, or sums over it, and works on with them while requests are under
  way.  Correct means: with one request at a time the copy is what the server
  has; and what a page tells (a button, a title, a budget, a table, a number, a
  percentage) is so.
* **Filling in a form.**  Files reach their field in steps, and fields are
  hidden meanwhile; the server judges by other code than the page.  Correct
  means: what the page displays without an error the server accepts, as it was
  displayed.
* **SingPass, MyInfo.**  A login that happens elsewhere, and hashes that expire
  or are replaced between prefill and submission.  Correct means: nobody is
  turned away whose login is as he left it, and the admin is told the truth of
  who answered and what was verified.
* **Response download.**  A stream that is cut anywhere, workers that finish in
  any order.  Correct means: the file has each response once and each answer
  under its question.

The full list of hazards, each at its line, is `hazards` in `PROJECT.json`.

## 2. The modules

| module | models | used by |
|---|---|---|
| `VerifiedAnswer` | abstract: an OTP that is sent for an answer and buys a signature for that answer | refined by `FieldVerification` |
| `FieldVerification` | the service, its handlers cut at their awaits, time, the TTL index, failures | `VerifiedSubmission` |
| `VerifiedSubmission` | the widget, the form and the server's judgement of the answer, on top of the service | |
| `AdminLogin` | the four login routes, cut at their awaits | `LoginPage` |
| `LoginPage` | the page that calls them, and what its browser remembers | |
| `FormLogic` | `getVisibleFieldIds` as the loop it is, with the functions that read the rules | |
| `SubmissionReceipt` | abstract: success is told of received responses only, and once | refined by `SubmissionPipeline` |
| `SubmissionPipeline` | both submission chains, mails with retries, webhook, bounces, edits of the form, crashes | |
| `FormDocument` | a form, what an edit does to it, its setters and validators | `FormLists`, `FormEditing` |
| `FormLists` | abstract: the arrays of forms, edited by one request after the other | refined by `FormEditing` |
| `FormEditing` | the routes that create, edit, duplicate and archive forms, cut at their awaits | `FormWorkspace`, `FormBuilder` |
| `FormWorkspace` | the list of forms and its modals | `AdminSite` |
| `ExampleForms`, `BillCharges`, `FormFeedback` | the examples, the bill and the feedback | `AdminSite` |
| `AdminSite` | an admin at one of these pages, or anybody's editing requests | |
| `FormBuilder` | the page on which a form is built, composed with `FormEditing` | `AdminBuilder` |
| `FieldSchema` | what the schemas accept of a field | `FieldAnswers` |
| `FieldAnswers` | the possible answers of a field, and its validators on the page and on the server | `FieldEditor`, `FormFilling` |
| `FieldEditor` | the modal in which one field is edited | `AdminBuilder` |
| `AdminBuilder` | the admin at the form or at the modal | |
| `FormFilling` | the page that is filled in and submitted, and the server's verdict | `FormAccess` |
| `FormAccess` | login, MyInfo and what the admin is told, around `FormFilling` | |
| `ResponseDownload` | the export of encrypted responses | `ResponseBrowsing` |
| `ResponseBrowsing` | the tab in which responses are read one by one, or exported | |
| `*_proofs` | theorems and their proofs: `FieldVerification`'s are in `VerifiedSubmission_proofs`, `ResponseDownload`'s in `ResponseBrowsing_proofs`, `FormLogic`'s, `FormFilling`'s and `FormAccess`'s in `RespondentPage_proofs`, `FormEditing`'s in a module that `AdminSite_proofs` and `FormBuilder_proofs` extend | |
| `MC*` | instances for TLC | the `.cfg` files |

How they correspond to the code (the exact lines are `map` in
`PROJECT.json`):

**FieldVerification.**  `verifications` is the Verification collection,
`request[r]` a handler's local state, with the transaction that it read, and
`sent` the OTP messages that arrived.  One action stands for a handler's code
between two awaits: `StartReset`, `StartGetNewOtp` and `StartVerifyOtp` are the
controllers with the query of `getTransaction`; `RejectNewOtp`, `GenerateOtp`,
`SendOtp`, `StoreOtp` are the parts of `getNewOtp`; `RejectVerify`,
`CountRetry`, `CompareOtp` those of `verifyOtp`.  `Fail` is a rejected call at
any point.  `isTransactionExpired`, `isHashedOtpExpired` and
`waitToResendOtpSeconds` are the functions of these names.  `ExpireTransaction`
is MongoDB's TTL monitor, which removes a transaction some time after its
expiry.

**VerifiedSubmission.**  The variables are the widget's scope (`fieldValue`,
`signature`, `view`, ...), the form's `submission`, and `calls`, the HTTP calls
of the factory, which reach the server and return in any order or are lost.
`EditValue` resets the state and posts the reset without waiting for it;
`NewOtpResolves`, `VerificationSucceeds` and the others are the callbacks.
`isAnswerValid` and `isSignatureValid` are BaseFieldValidator's methods.

**AdminLogin.**  `tokens` is a set of documents, several of which may have one
email, because nothing makes it unique; `OverwriteToken` and `InsertToken` are the two outcomes of an upsert,
between which two concurrent requests may both insert.  `CountAttempt` is
`findOneAndUpdate` with `$inc`, hence one action.

**FormLogic.**  `ExamineField` is the body of the `forEach`, `EndPass` the test
of `changesMade`.  `isConditionFulfilled` and `isLogicUnitSatisfied` are the
functions of these names.  The names of its variables and of its specification
(`ruled`, `position`, `LogicSpec`, ...) differ from those of `FormAccess`, with
which it shares a module of proofs.

**SubmissionPipeline.**  `stage[r]` is the middleware a request has reached:
`EmailChecks` and `EncryptChecks` are the two routes' lists up to saving.
`PassCheck` and `RefuseCheck` are a middleware that calls `next` or answers.
Whether a check refuses depends on the request's data, which are left out; the
form's settings decide whether it can (`CanRefuse`, `CanPass`).  `UploadFails`
is the `.catch` of an upload, which answers 400 and resolves; the second one
throws because an answer was sent, and `Promise.all` rejects.  `Confirm` is
`sendAutoReply` with the `webhooks.post` before it, one turn of the event loop.
`MalformedPart` is `busboy`'s listener for a `body` part that `JSON.parse` does
not take: it answers 400 and does not stop the handler, so that with another
part the same request can pass the checks and be saved and mailed; what would
answer it later throws.  `BodyCutOff` is a connection that ends before the body.
`reply[r]` is what `res.send` was called with.  A call to S3, MongoDB or the
mail server that fails may have had its effect (`bucket' \in {bucket, ...}`).

**FormDocument, FormLists, FormEditing.**  `forms` is the collection,
`copy[r]` the document that a handler works on and `seen[r]` what it read;
`stage[r]` is the call that it waits for.  `EditedFormFields` is
`getEditedFormFields`, `EditedSettings` the setters in the order in which
`_.extend` runs them, `Validates` the validators that a save runs.  `FormLists`
has only the arrays and one atomic step per request.

**FormWorkspace.**  `myforms` is the page's list, `deleteModal.formIndex` the
index into it, `asked` the requests with a callback that is still to run.

**ExampleForms, BillCharges, FormFeedback.**  Aggregation pipelines are the set
or the order that they give; `$sort` leaves the order of equals open.  The
pages are their scopes' variables, their requests a sequence.  The examples are
read with `read('secondary')`: `secondaries` has what each of these members has
of the collections, `Replicate` brings one up to date with what is on the
primary, and each query (`Serve`) is answered by any of them.  `ranked` is the
history of the rankings that this search has read.  `ExportedFile` is named, as
in the code, after the e-service id in the input and the month selected, which
need not be those that its rows were asked for.

**FormBuilder, FieldEditor.**  `myform`, `tempForm` and `attachmentsTotal` are
the page's scope; `Send` is `updateForm`.  A request beside another one, one
that fails and one that is saved though it fails for the page are lapses
("overlap", "failure", "unnoticed").  `FieldEditor` has the field of the
modal with its options, columns, limits and picture.

**FieldSchema, FieldAnswers, FormFilling, FormAccess.**  A value is a member of
the set of those that the validators tell apart (`PossibleValues`).
`PageValid` and the server's `IsValid` are the two sides' judgements.  A file is
checked, attached and read in three steps (`tasks`).  `cookie` is the SingPass
cookie, `hashes` a user's document with the MyInfo hashes and their expiry, `view` what the server
found for the page.

**ResponseDownload, ResponseBrowsing.**  `lines` is what has reached the reader
of the stream, `inbox[w]` the messages of a worker, `generator` the merged
headers and rows.  `table` is a page of the responses, `current` the response
that was asked for.

**LoginPage.**  `page` is the controller's `vm`, `calls` what became of its
requests, `user` the user in `localStorage`.  A behaviour is about the page in
`pageBrowser`, with nobody else at work, or (`None`) about requests to the
server from anywhere.  A call while another one is under way or while the
redirection is due is a lapse ("overlap", "late").

### Simplifications

* *FieldVerification*: `getTransactionMetadata` only reads and is left out.  An
  OTP and a hash are values; bcrypt's comparison is exact.
* *VerifiedSubmission*: one field that is always visible, well-formed values
  only; typing the OTP and pressing the button are one action; captcha is not
  modelled; the number of calls is bounded by `Requests`.
* *AdminLogin*: whether an email's agency is known is the constant
  `Whitelisted`; `find` without a sort order returns any of several tokens.
* *FormLogic*: a free-text "Others" answer is one value; one synchronous call.
* *SubmissionPipeline*: pure middlewares (celebrate, injectAutoReplyInfo,
  prepare..., getRequestedAttributes) are folded into the checks; in email mode
  the attachments are part of the admin's mail; a PDF that cannot be made means
  that no confirmation mail is sent; uploads that are still on their way after
  the second failure are ignored, as nothing the properties speak of depends on
  them; one respondent's page.  `EditForm` lets the settings change freely: the
  setter that keeps `authType` while the form is public judges by the copy its
  handler read, and two handlers can interleave.  The response mode is a
  discriminator and never changes.  That a bcrypt comparison rejects in
  `verifyMyInfoVals`, whose `Promise.all` has no `catch`, is left out.
* *FormEditing*: `content` stands for all that can be changed of a field; the
  settings on which nothing depends behave like `hasCaptcha`.
* *FormWorkspace, ExampleForms, BillCharges, FormFeedback*: one page at a time;
  known forms keep their order when the list is read again; the admin does not
  leave a page while a modal is being prepared, and types and opens nothing
  while a page of examples is under way.
* *FieldEditor*: inputs that Angular holds to be invalid are undefined in its
  model and never saved; nothing is edited while a field is being saved, and a
  saved field is forgotten once another is opened.
* *FormFilling*: formats are kinds of text; encryption is one step that may
  fail; addresses and hashes of MyInfo are values.
* *ResponseDownload*: decryption is a property of a record.
* *LoginPage*: the page is not left while an email is checked; which keys the
  OTP input takes is left out.

## 3. The runs

All pass unless marked.  Sizes are distinct states.

| run | instance | properties |
|---|---|---|
| `verification_races` (1.1M) | 3 overlapping requests, failures, time | `StoredOtpCoherent`, `SignatureNeedsDeliveredOtp`, `SignatureWithinOtpLifetime`, `ExpiredStaysGone`, `RefinesVerifiedAnswer` |
| `page_orderly` (119k) | 5 calls, a respondent who waits for answers, time | `OtpLimits`, `TickMeansVerified` |
| `page` (114k) | 3 calls that are late, lost, reordered; with fairness | `AcceptedIsVerified`, `ValidInputIsSigned`, `EveryCallEnds` |
| `page_tick` (violation) | an edit while an OTP is being verified | `TickMeansVerified` |
| `login` (436k) | concurrent login requests, and those of one browser's page | `AttemptLimitExact`, `SessionHadOtp`, `LoginInOrder` |
| `logic_visible` (456k) | forms of three fields with pairs of rules that form chains, forks and cycles; all answers | `ReturnsLeastVisible`, `ClearingIsStable`, `PreventedForVisibleReason`, `Returns` |
| `submission` (95k) | 1 submission, 2 attachments, 2 recipients, 2 retries, crashes, edits; with fairness | `OutcomesAgree`, `ThanksAreDue`, `AuthTypeWasChecked`, `BouncedMeansAdminMail`, `EverythingEnds`, `ImplementsReceipt` |
| `submission_uploads` (violation) | an upload that fails | `StoredAttachmentsUploaded` |
| `admin_site` (440k) | 2 editing requests; the list of forms; 3 examples on 2 secondaries; 2 months and e-service ids; 3 visitors | `WorkspaceInOrder`, `ShownAsRanked`, `BillIsRight`, `FeedbackTold`, `KeptUnlessOverwritten`, `EditsAsPromised` |
| `form_builder` (520k) | forms with attachments, MyInfo and logic; the modals of every kind of field | `FieldInOrder`, `PageInOrder`, `SettingsOnPurpose` |
| `responses_export` (90k) | 4 histories of responses, 2 workers, pages of the table | `ExportCorrect`, `BrowsedInOrder`, `DownloadEnds` |
| `form_filling` (78k) | a form for each kind of field, limit and login; 2 users; MyInfo | `TakenAsDisplayed`, `ToldTruthfully`, `ShownAgainIsBlank`, `NeverTurnedAway`, `SubmissionEnds` |

Several properties are conjunctions of named parts, which the modules state and
explain one by one.  Many of them have an excuse (`lapses`, `mishaps`,
`troubles`, `inDoubt`): a variable that only the properties read and that tells
what happened that the code does not guard against.  It says exactly when the
promise holds.

### Bounds, and why they are enough

* Three overlapping requests contain every order of two writers and a reader
  of one field (two `getNewOtp` and a `verifyOtp`), and time runs past the lifetime
  of an OTP and to the end of the transaction's.  The limits need an OTP, one
  attempt more than `NUM_OTP_RETRIES` (2) and a second OTP: five requests in a
  row.
* The page's three calls allow an OTP, its verification, and a reset or one
  late call more.
* The concurrent logins exceed `MAX_OTP_ATTEMPTS` by enough to see both
  directions of the limit across a new OTP.  `OneLost`: among them one fails
  at most, and none only looks an email up or is about an email of no agency,
  as those of the page may.  `OneLapse`: a page with a lapse of one kind, and
  then no time and no failure.  `OneSender`: an admin asks for one OTP at a
  time, without which `SessionHadOtp` still holds and a used OTP may stay.
* Two rules over three fields contain chains, cycles and rules that refer to a
  later or a deleted field, and conditions on choices and numbers; the proofs
  cover all forms.
* A second failing upload needs two attachments.  The forms are one of each
  mode that asks for nothing and one that asks for everything, and edits move
  between them, so every check both passes and refuses.
* Two editing requests are a writer and whoever it overtakes; the proofs cover
  any number.  `Few` of `MCAdminSite`: after a lapse no modal is opened until
  the list is read again; after a mishap no page follows until the next search;
  one change of the examples; as many cards as forms.  The pages of examples
  have two cards of three forms.  Two secondaries that lag by any of the changes
  give one page before and the next after it, in either order.  `Chosen`, `MaxLogins`, `MaxQueries`,
  `MaxSubmissions`, `MaxBillCalls`: two months, one login and one submission
  more, two requests at once.
* `Few` of `MCFormBuilder`: the attachment sizes and positions that reach the
  budget's end; no overlap, which excuses everything; with pictures, one kind of
  change.  `MaxWaiting`, `Positions`, `Collaborators`, `MaxOptions`,
  `MaxColumns`, `Limits` are named in their modules.
* Four responses in two workers, with chunks that end within a line; pages of
  two rows, so that three pages shift.
* One field beside the yes/no field that shows it, `MaxTasks` files under way,
  `MaxLength` of texts around the limits, the days around today to `LastDay`,
  `MaxRows` of a table (the proofs cover any form); `MaxTime` past the life of a cookie; `MaxElsewhere`
  logins in another tab.
* Requests, OTPs, attachments, emails and visitors are used symmetrically;
  symmetry is switched off in the runs with liveness.

`CHECK_DEADLOCK FALSE` appears where the model may stop because its requests
or its time are used up.  The submission runs check deadlock.

### Fairness

`page`, `submission`, `form_filling` and `responses_export` assume weak
fairness of the server's, the page's and the workers' steps: the event loop
runs a callback that is ready, and a call to MongoDB, S3, the mail server or the
SMS gateway is assumed to be answered or to fail in the end.  This is an
assumption about those services and their clients; so is, in `page` and
`form_filling`, that an HTTP call of the browser ends in an answer or an error.
The two calls that the source makes with `axios` and without a timeout, which
`axios` does not have unless it is given one, are assumed to end by nobody: the
post to a webhook (`webhooks.service.js:74`) may be under way for ever, and so
may the captcha's verification (`submissions.server.controller.js:54`) with the
request that waits for it.  `PostWebhook` has no fairness, `Respond` has none
while `AwaitsCaptcha`, and `EverythingEnds` says what is left: every request is
answered or waits for the captcha service, what follows the answer of either is
done, and no mail is retried for ever.  `logic_visible` assumes that a
synchronous loop goes on running.  Nothing is assumed of respondents, admins,
bounces, edits, replication or crashes, and none is assumed to happen.

### What the runs found

Two runs end in a violation of what a comment in the code says:

* `page_tick`: the input stays editable while `verifyOtp` is under way; an edit
  at that time is overwritten by the late answer, and the widget shows "Answer
  has been verified successfully" beside another answer.  The server rejects
  that answer (`AcceptedIsVerified` holds).
* `submission_uploads`: after a failed upload `saveResponseToDb` answers 400
  and saves the submission all the same, with metadata of an attachment that
  is not in S3.  What the respondent is told stays true (`ImplementsReceipt`
  holds).

What the models have as the code does it, and a reader may not expect:

* *Submission*: an email-mode request with a `body` part that does not parse is
  answered 400, and is saved and mailed all the same if another `body` part
  parses (`email-submissions.server.controller.js:106-118`, `:178`): the
  respondent is told of a failure, and the admin has the response.
  `RefusedLeavesNothing` speaks of the refusals that end a request.  A second
  malformed part makes the answer throw in an event listener, which is `Crash`.
  A webhook's receiver or a captcha service that never answers is waited for
  without a limit.
* *Editing*: settings are saved without a version check, so that a handler with
  an older copy can bring a form out of coherence; the duplicate of a
  field with logic is not charged to the attachment budget; a setting that was
  saved though the page was told of an error is put back by `revertField`, and a
  later save of another setting changes it back in the database, too; `btnLiveState` stays 2
  after a status change that failed; the route documentation of
  `POST /adminform` speaks of write permission where `duplicate` asks for read.
* *List of forms*: the index in the delete modal shifts when a late duplicate
  arrives; a failed creation leaves the spinner; the promise of the redirection
  to the error page counts as success; two uses of a template get one title.
* *Field editor*: `addOption` may repeat a name after a deletion (saving is then
  disabled); `additionalRowCount` is not reset with `minimumRows`; the MyInfo
  modal works on the form's own field.
* *Filling in*: the page lets an attachment have the maximal size (`<=`) that
  the server refuses (`<`); a hidden MyInfo field with the attribute of a
  visible one is marked `[MyInfo]`; a page shown for one user may be submitted
  with the cookie of another tab; `spcpSubmissionFailure` never reaches the
  page.
* *Responses*: a download polls for ever on a broken connection or a lagging
  secondary.
* *Examples*: `searchSubmissionsForForm` compares a field that is literally
  named `key`, so a single example never has statistics; `updateSelection`
  loads while a page is under way; equals may change order between pages; two
  pages may come from secondaries that are not equally far, so that a change
  from before the search is between them; with a search the last submission is
  the youngest, without one the one stored last;
  "less than 1 day ago" is up to two days; an error says that there are no
  results beside the forms that stay.
* *Bill*: `setMonth` on the last days of a month; an export may be named after
  another month after a failure, and after another e-service id, or none, once
  the input was edited or emptied by opening or closing the search.  *Feedback*: a failed download leaves
  `csvDownloading`; more than a hundred per cent is possible.
* *Login page*: Enter passes by `buttonClicked`; a second `verifyotp` that is
  answered 401 forgets a user who has logged in; an email that was edited
  during its check gets an OTP unchecked.

## 4. The proofs

TLAPS checks the theorems of eight `*_proofs` modules for all values of the
constants, from the named assumptions on them:

* lifetimes, limits and sizes are natural numbers (`TimesAssumption`,
  `PageAssumption`, `LoginAssumption`, `PipelineAssumption`,
  `ExamplesAssumption`, `BrowsingAssumption`); where a theorem counts, the sets
  that it counts in are finite (`LoginAssumption`, `WorkspaceAssumption`);
* `None` is none of the data (`NoneAssumption`, the two `NullAssumption`s,
  `DocumentAssumption`, `BrowsingAssumption`, `WorkspaceAssumption`,
  `DownloadAssumption`, `RecordsAssumption`), and an id that a request will make
  is not one that exists already;
* what is given is well-formed: forms (`LogicAssumption`, `FormsAssumption`,
  `EditingAssumption`;
  for the builder with distinct names of fields and attachments that fit,
  `InitialFormsAssumption`, since the page counts what it finds),
  the bodies of requests, as far as the routes check them (`CallsAssumption`,
  `WorkspaceAssumption`), collections and dates (`BillAssumption`,
  `ExamplesAssumption`, `FeedbackAssumption`, `DownloadAssumption`), the names of
  a new field's options (`EditorAssumption`) and what respondents can type
  (`RespondentsAssumption`).

What is proved, and along which argument:

* **FieldVerification** (`TypesHold`, `CoherenceHolds`, `SignatureSafe`,
  `SignatureTimely`, `RemovalIsFinal`, `Refinement`, `SerialLimits`).  The
  safety of signatures is not inductive: a handler compares with the transaction
  it read before.  The invariant (`IndInv`) says of every such snapshot, too,
  what `StoredOtpCoherent` says of the database (`SnapshotsCoherent`), that what
  is about to be stored was sent (`SentBeforeStored`), that no recorded time
  lies in the future (`ClocksInPast`), and that an attempt under way began
  within the OTP's lifetime (`AttemptsInTime`).  `Refinement` maps a step that
  sends to `Deliver` of `VerifiedAnswer`, a successful comparison to `Verify`,
  and all others to stuttering.  `SerialLimits` has the limits of a client who
  makes one request after the other.  Its invariant (`CountInv`) counts the
  attempts at an OTP as the cardinality of the set of requests that made them,
  and says that this is what the database has stored (`StoredCount`), what a
  handler has read (`SnapshotCount`, `SnapshotFresh`), and why an attempt was
  refused or let through (`JudgedLimit`, `RefusedAtLimit`); that two OTPs are
  far enough apart rests on who stored the last one (`SpacedInv`).
* **VerifiedSubmission** (`PageTypesHold`, `PageImplementsService`,
  `AcceptedAnswersAreVerified`, `ValidInputsAreSigned`, `OrderlyIsSerial`,
  `OrderlyTick`, `OrderlyLimits`).  Every step of the composition is a step of
  the service or leaves it alone, so the service's theorems hold of the
  composition; every signature in the page or in a submission came out of a
  reply of the service (`SignaturesReleased`).  That a valid input has a
  signature holds however late the answers are (`SignedInv`).  That the tick
  belongs to the answer beside it does not (`page_tick`): it is proved of the
  respondent who waits, from an invariant that follows the one call under way
  through page and service (`PageOrder`, `OtpOrder`).  The same respondent is a
  serial client (`OrderlyIsSerial`), so that the limits are his as well.
* **AdminLogin** and **LoginPage** (`LoginTypesHold`, `ComparisonsBounded`,
  `AttemptLimitHolds`, `RefusalsJustified`, `SessionsProved`, `UsedOtpsGone`,
  `LoginAgrees`).  The invariant relates a token's `numOtpAttempts` to the
  number of requests that have counted themselves in that very token, by the
  cardinality of sets of requests (`CountsExact`), and every token and snapshot
  to the sendotp request that issued it (`TokensIssued`, `SnapshotsIssued`).
  With one sender at a time an email has one token (`SerialInv`), so that a used
  OTP is gone.  For the page, `LoginPageInv` says what each of its calls may
  have done to the server when it is answered (`NothingLeftBehind`,
  `SentOtpIsCurrent`, `TokenStored`), and what page, session and localStorage
  have in common (`TimerTells`, `SessionKept`, `UserLoggedIn`).  The proof found
  a call that the runs were too small for: a second `verifyotp`, or a new OTP,
  between the login and the redirection; it is the lapse "late" now.
* **FormLogic** (`LoopTypesHold`, `VisibleIsLeast`, `ClearingKeepsVisible`,
  `PreventionIsJustified`).  What is visible so far lies in every closed set
  (`Sound`), and a pass that has changed nothing so far has examined fields
  that add nothing (`PassSoFar`), so that at its end the set is closed.
* **SubmissionPipeline** (`PipelineTypesHold`, `PipelineImplementsReceipt`,
  `ThanksDue`, `OutcomesAgreed`, `RefusalsLeaveNothing`,
  `ConfirmationsJustified`, `AuthTypeChecked`, `BouncesOfAdminMail`).  The
  invariant follows a request: before its checks are over it has left nothing
  anywhere, and it stays so if one of them ends it; what was only answered for a
  malformed part goes on (`EarlyLeavesNothing`); whoever passed `isSpcpAuthenticated` has a
  token if the *snapshot* asks for one (`ChecksInOrder`); what saving no longer
  waits for and has not answered as a failure is in S3 (`SavedInOrder`); at the
  point of confirming, an unanswered request is received (`ToldIsReceived`).
  `PipelineImplementsReceipt` maps a step that stores or mails to `Receive`,
  `Confirm` to `Succeed`, failures and `Crash` to `Fail`.
* **The admin's pages** (`FormEditing_proofs`, `AdminSite_proofs`).  *Editing* (`FormTypesHold`,
  `FormsKept`, `EditsImplementLists`, `EditsKeepPromises`): the invariant
  `EditInv` relates three states of a form, as the handler read it, as it edited
  it (`CopyMade`, `NewFormMade`), and as the database has it; a version that is
  still the one that was read has the arrays that were read (`VersionTells`), so
  that a save that passes the version check does to the arrays of the database
  what `FormLists` does in one step.  *Feedback* (`FeedbackIsTold`): between the
  answer to a submission and the feedback there are the visitors of `Pending`,
  whose number bounds a percentage.  *Bill* (`BillsAreRight`): the fold over the
  logins is the only function with its recursion, and so is the count.
  *Examples* (`ExamplesInOrder`): what a secondary gives is a ranking of forms
  that the query is about, however far behind it is (`ResultsWanted`); this
  search has one request under way, whose answer, if it is there, was cut from
  such a ranking (`OnePageAsked`), and so were the cards, each at its place
  (`CardsPlaced`); answers to earlier searches are told apart by a history that
  the page does not have.  *List of forms* (`WorkspaceAgrees`): `WorkspaceInv` adds
  to `EditInv` what the page copied from the server (`RequestsKept`, `ListKept`,
  `ModalKept`) and, without a lapse, that a request that is answered is what
  tells its list from the server's (`ListFollows`).  A duplicate's new title
  exists by the pigeonhole principle.  Here the proof refuted a first form of
  `RefusedOnlyIfChanged`, with a third request: the duplicate of a form that an
  overtaken save has made incoherent is refused; hence `overwritten`.
* **FormBuilder** (`PageAgrees`, `SettingsAsMeant`).  The page changes its budget
  before the server has the edit, and its inputs before the setting is saved.
  `BuildInv`, beside `EditInv`, says for the one request under way what the
  database is and will be when it is answered: with the settings, the old ones
  of `myform` or those that the inputs show (`SettingsPending`); with the fields,
  those of `myform` or what the body makes of them (`FieldsPending`), whose
  megabytes are what the budget does not leave (`Foreseen`).  A modal that is
  open counts with the size that its field has (`ModalCounts`).  Each level holds
  as long as none of the lapses has happened that the property bears (`CalmInv`,
  `FieldsInv`, and after a save that the page did not notice `StuckInv`).  That
  an edit of one field changes the sum by the difference of two sizes is proved
  of lists with distinct names (`Leaves`).  `SettingsAsMeant` rests on the order
  of the setters: with one setting sent, each takes the value as it is
  (`OneSetting`).  The proof refuted the property as it was first stated, which
  also bore a save that fails for the page and is stored: with a third request
  the next save of another setting undoes it.  Such a save is the lapse
  "unnoticed" now; the run has two requests and could not show it.
* **ResponseDownload** (`ExportIsCorrect`).  The records' text is one sequence of
  characters that is in three places: the invariant (`DownloadInv`) says that the
  lines not yet read, the line that has begun to arrive and what is under way are
  three segments of it, one after the other (`TextArrives`), so that wherever the
  network cuts it, `split` makes the same lines.  Each record whose line was read
  waits in one place of one inbox or is counted, not both (`TextDealt`), and the
  places are as many as are not counted (`AllCounted`).  The merged headers
  follow the records that are collected, whatever the order (`HeadersFollow`):
  per field one entry, with the latest question, and as many columns as its
  longest answer; from this alone the table is right (`CsvAligned`).  An answer
  that is no stream is one line of no record, with an invariant of its own
  (`MessageArrives`, `MessageDealt`).  The folds of the code are functions on sets
  of positions; the first lemmas of the module unfold them from left to right.
* **ResponseBrowsing** (`TabExportIsCorrect`, `ResponsesBrowsed`).  Each step of
  the page is a step of the export or leaves it alone.  The table is a page cut
  from as many responses as some count told of (`TableCut`), the opened response
  is in it (`OpenedIsInTable`), a page that is turned was left at its edge
  (`TurnedFrom`), and one response is fetched at a time (`OneFetched`).
* **FieldEditor** (`FieldsInOrder`).  `EditorInv` says what a field of each type
  is like while it is edited (`WellEdited`): a record of its kind, whose limits
  are those of the kind of limit that is selected, whose boxes are as many as its
  options, and whose columns are those of each row of the preview.  It is
  inductive because each input keeps the rest of its kind (`ChangeStep`); a field
  under way to the server or saved there has passed the modal's checks besides
  (`CanBeSaved`).  What is then left to show is an answer: one lemma per kind of
  field gives a value that respects its limits (as many characters, ticks or rows
  as are asked for, a number or a day between the two ends), and shows that the
  page's judgement and the server's take it.  The options that are ticked are the
  first ones in their order, distinct because duplicates are not saved.  The
  assumptions (`EditorAssumption`, `RespondentsAssumption`) say that a respondent
  can type as much as the greatest limit asks for, and that the mark
  `radioButtonOthers` of the choice "Others" is no option: an option of that name
  would be taken for the mark.
* **FormFilling** and **FormAccess** (`AccessInvariant`, `PageTaken`,
  `AdminToldTruthfully`, `BlankWhenShownAgain`, `NobodyTurnedAway`).  The
  assumptions (`AnswersAssumption`, `FormsAssumption`, `AccessAssumption`) say
  that a form is one that the schemas and the builder take (`IsForm`), of any
  number of fields of any kind with any limits, that what MyInfo has of a user
  fits the field that asks for it, that a file's name is not blank and that a
  number in front of a name tells both apart.  The invariant has two
  halves.  `FillingInv` says of a field what it may hold (`ValuesOK`: an answer of
  its kind, and a table as many rows as the page lets it grow), that a file nobody
  interfered with is at rest or under way in one task (`SettledInv`), that a hidden
  field is blank (`HiddenInv`), that a page under way to the server is the one that
  was sent, saved and displayed (`SentInv`), and what a verdict is about
  (`VerdictInv`).  `AccessInv` says that cookies end as they were made
  (`CookiesInv`), that hashes are of what MyInfo has had of that user
  (`HashesInv`), that who logged in for the page has hashes that outlive his
  cookie (`MyInfoInv`: the reason why nobody is turned away), that a locked field
  has the value that MyInfo gave (`LockedInv`) and that what was found to match its
  hash is such a value (`HashedInv`).  What the page takes for valid the server
  accepts, by one lemma per kind of field (`PageAccepts`), over the days that may
  pass between; the size of the attachments follows from the budget of the form,
  since each file keeps to its field's size and sums are monotone; a checkbox is
  taken because its options are sent each once, and what is typed beside "Others"
  is the one answer that need not be an option, even if it reads as one.  The
  names that `handleDuplicatesInAttachments` gives are distinct (`NamesDistinct`).

Only model-checked: liveness (`EveryCallEnds`, `EverythingEnds`, `DownloadEnds`,
`SubmissionEnds`, `Returns`) and anything with `ENABLED`, which are beyond this
prover.  Every invariant and action property of a passing run is a theorem.
The induction theorems of the library cannot be used;
where an argument is by induction over numbers or finite sets, the proofs take a
least counterexample instead (`LeastExists`) or a set of least cardinality.

## 5. Plan

Modelled and checked, in this order: verification and its page, admin login,
form logic, submission, editing and the admin's pages, the builder, filling in a
form with SingPass and MyInfo, the responses.  Proved, in the same order but for
the filling in of forms, which came last: what section 4 lists.  Left: nothing that
a run checks and the prover can state.

## 6. Not modelled

Configuration, the feature manager and the loaders wire the program up; the
models describe features that are switched on.  Migration scripts run once by
hand.  The SMS service's cache of clients and its count of messages are one
external step that may fail.  The static resources (occupations, schools and
other lists of MyInfo, templates), the landing page, `main.js`, the HTML views,
analytics, the beta permissions and the modals of the start and the end page,
which save one text, have no behaviour that a model would tell apart.  What is
inside a zip, the wording of mails, the signature check of SNS notifications,
bcrypt, the signing SDK, the cryptography of responses, SingPass, MyInfo and the
mail server are external.
