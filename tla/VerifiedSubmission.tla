-------------------------- MODULE VerifiedSubmission --------------------------
(***************************************************************************)
(* A respondent's page with one verifiable field, talking to the service   *)
(* of FieldVerification, up to the server's judgement of the submission    *)
(* (verifiable-field.client.component.js, submit-form.directive.js,        *)
(* getParsedResponses and BaseFieldValidator).                             *)
(*                                                                         *)
(* The page sends each HTTP call as one request of FieldVerification.  It  *)
(* waits for getNewOtp and verifyOtp, and goes on meanwhile: the input can *)
(* be edited while an answer is under way.  It does not wait for reset.    *)
(* Calls travel separately, so they reach the server in any order, and the *)
(* page may see an error while the server is still at work.                *)
(***************************************************************************)
EXTENDS FieldVerification

CONSTANTS
    TheField,           \* the verifiable field
    Empty,              \* the empty string: nobody gets a message sent to it
    Required,           \* whether the field must be answered
    DISABLED_SECONDS    \* how long "Resend OTP" stays disabled

ASSUME PageAssumption ==
    /\ TheField \in FieldIds
    /\ Empty \in Answers
    /\ Required \in BOOLEAN
    /\ DISABLED_SECONDS \in Nat

VARIABLES
    transactionId,  \* the page's transaction, or None
    calls,          \* the calls the page has made, each under a request id
    awaiting,       \* the call whose answer the widget awaits, or None
    fieldValue,     \* vm.field.fieldValue
    signature,      \* vm.field.signature
    inputValid,     \* FALSE when the input has the error 'verified'
    otpInput,       \* vm.otp.value
    lastRequested,  \* the value an OTP was last requested for
    view,           \* the widget's state
    resend,         \* resendBtn.overrideDisabled and the timers that clear it
    submission      \* the form's submission

pageVars == <<transactionId, calls, awaiting, fieldValue, signature,
              inputValid, otpInput, lastRequested, view, resend, submission>>

allVars == <<vars, pageVars>>

Views == {"VFN_DEFAULT", "VFN_REQUESTED", "VFN_WAITING_FOR_INPUT",
          "VFN_SUBMITTED", "VFN_SUCCESS", "VFN_ERROR"}

Calls == [op : {"reset", "getNewOtp", "verifyOtp"},
          answer : Answers \cup {None}, otp : Otps \cup {None}]

(* null is not an id of a call or a transaction, nor a call.               *)
ASSUME NullAssumption ==
    None \notin Requests /\ None \notin TransactionIds /\ None \notin Calls

NoSubmission == [state |-> "none", answer |-> None, signature |-> None]

PageInit ==
    /\ Init
    /\ transactionId = None
    /\ calls = [r \in Requests |-> None]
    /\ awaiting = None
    /\ fieldValue = Empty
    /\ signature = None
    /\ inputValid = TRUE
    /\ otpInput = None
    /\ lastRequested = [value |-> None, verified |-> FALSE, signature |-> None]
    /\ view = "VFN_DEFAULT"
    /\ resend = [overrideDisabled |-> FALSE, timers |-> {}]
    /\ submission = NoSubmission

-----------------------------------------------------------------------------
(* Making calls *)

isLoading == awaiting # None

NextCall == CHOOSE r \in Requests : calls[r] = None

Post(op, answer, otp) ==
    /\ \E r \in Requests : calls[r] = None      \* the bound on calls
    /\ calls' = [calls EXCEPT ![NextCall] =
                     [op |-> op, answer |-> answer, otp |-> otp]]

(* The page opens its transaction.  When that call fails it has none.  The *)
(* server reads the form again, which may have been edited since the page  *)
(* got it: the field need not be in the transaction.                       *)
OpenTransaction(t) ==
    /\ transactionId = None
    /\ \E verifiable \in SUBSET FieldIds : CreateTransaction(t, verifiable)
    /\ transactionId' = t
    /\ UNCHANGED <<calls, awaiting, fieldValue, signature, inputValid,
                   otpInput, lastRequested, view, resend, submission>>

-----------------------------------------------------------------------------
(* The respondent types in the field: resetFieldInTransaction *)

(* Mutant: an edit leaves the server's OTP for the old value alone.        *)
PostReset_Never == UNCHANGED calls

(* Without a transaction the reset has nowhere to go.                      *)
PostReset ==
    IF view # "VFN_DEFAULT" /\ transactionId # None
    THEN Post("reset", None, None)
    ELSE UNCHANGED calls

(* Mutant: the input keeps its validity when it is edited.                 *)
EditValue_KeepsValidity(value) ==
    /\ submission.state = "none"
    /\ value # fieldValue
    /\ fieldValue' = value
    /\ IF value = lastRequested.value /\ lastRequested.verified
       THEN /\ signature' = lastRequested.signature
            /\ view' = "VFN_SUCCESS"
            /\ UNCHANGED calls
       ELSE /\ PostReset
            /\ signature' = None
            /\ view' = "VFN_DEFAULT"
    /\ UNCHANGED <<vars, transactionId, awaiting, inputValid, otpInput,
                   lastRequested, resend, submission>>

EditValue(value) ==
    /\ submission.state = "none"
    /\ value # fieldValue
    /\ fieldValue' = value
    /\ IF value = lastRequested.value /\ lastRequested.verified
       THEN /\ signature' = lastRequested.signature
            /\ inputValid' = TRUE
            /\ view' = "VFN_SUCCESS"
            /\ UNCHANGED calls
       ELSE /\ PostReset
            /\ signature' = None
            /\ inputValid' = (value = Empty)
            /\ view' = "VFN_DEFAULT"
    /\ UNCHANGED <<vars, transactionId, awaiting, otpInput, lastRequested,
                   resend, submission>>

-----------------------------------------------------------------------------
(* The respondent asks for an OTP: getNewOtp *)

VerifyButtonEnabled ==
    /\ view = "VFN_DEFAULT"
    /\ ~isLoading
    /\ fieldValue # Empty

ResendEnabled ==
    /\ view \in {"VFN_WAITING_FOR_INPUT", "VFN_ERROR"}
    /\ ~resend.overrideDisabled

ClickGetNewOtp ==
    /\ VerifyButtonEnabled \/ ResendEnabled
    /\ lastRequested' = [value |-> fieldValue, verified |-> FALSE,
                         signature |-> None]
    /\ otpInput' = None
    /\ IF transactionId = None
       THEN /\ view' = "VFN_ERROR"
            /\ UNCHANGED <<calls, awaiting>>
       ELSE /\ Post("getNewOtp", fieldValue, None)
            /\ awaiting' = NextCall
            /\ view' = "VFN_REQUESTED"
    /\ UNCHANGED <<vars, transactionId, fieldValue, signature, inputValid,
                   resend, submission>>

(* A 2xx answer, which WAIT_FOR_OTP (202) is too.                          *)
Accepted(reply) == reply \in {"OK", "CREATED", "WAIT_FOR_OTP"}

NewOtpResolves(r) ==
    /\ awaiting = r
    /\ calls[r].op = "getNewOtp"
    /\ request[r].pc = "done"
    /\ Accepted(request[r].reply)
    /\ awaiting' = None
    /\ view' = "VFN_WAITING_FOR_INPUT"
    /\ resend' = [overrideDisabled |-> TRUE,
                  timers |-> resend.timers \cup {now + DISABLED_SECONDS}]
    /\ UNCHANGED <<vars, transactionId, calls, fieldValue, signature,
                   inputValid, otpInput, lastRequested, submission>>

(* An error answer, or the call failed under way, whatever the server does.*)
Rejects(r) ==
    request[r].pc = "done" => ~Accepted(request[r].reply)

NewOtpRejects(r) ==
    /\ awaiting = r
    /\ calls[r].op = "getNewOtp"
    /\ Rejects(r)
    /\ awaiting' = None
    /\ view' = "VFN_ERROR"
    /\ UNCHANGED <<vars, transactionId, calls, fieldValue, signature,
                   inputValid, otpInput, lastRequested, resend, submission>>

(* A timer enables the button, also when a later one is still to come.     *)
ResendTimer(d) ==
    /\ d \in resend.timers
    /\ d <= now
    /\ resend' = [overrideDisabled |-> FALSE, timers |-> resend.timers \ {d}]
    /\ UNCHANGED <<vars, transactionId, calls, awaiting, fieldValue,
                   signature, inputValid, otpInput, lastRequested, view,
                   submission>>

-----------------------------------------------------------------------------
(* The respondent submits an OTP: verifyOtp *)

ClickVerifyOtp(otp) ==
    /\ view \in {"VFN_WAITING_FOR_INPUT", "VFN_ERROR"}
    /\ ~isLoading
    /\ otpInput' = otp
    /\ IF fieldValue # lastRequested.value
       THEN /\ view' = "VFN_ERROR"
            /\ inputValid' = lastRequested.verified
            /\ UNCHANGED <<calls, awaiting, lastRequested>>
       ELSE IF transactionId = None
       THEN /\ view' = "VFN_ERROR"
            /\ lastRequested' = [lastRequested EXCEPT !.verified = FALSE]
            /\ inputValid' = FALSE
            /\ UNCHANGED <<calls, awaiting>>
       ELSE /\ Post("verifyOtp", None, otp)
            /\ awaiting' = NextCall
            /\ view' = "VFN_SUBMITTED"
            /\ UNCHANGED <<inputValid, lastRequested>>
    /\ UNCHANGED <<vars, transactionId, fieldValue, signature, resend,
                   submission>>

VerificationSucceeds(r) ==
    /\ awaiting = r
    /\ calls[r].op = "verifyOtp"
    /\ request[r].pc = "done"
    /\ Accepted(request[r].reply)
    /\ awaiting' = None
    /\ lastRequested' = [lastRequested EXCEPT !.verified = TRUE,
                                              !.signature = request[r].data]
    /\ signature' = request[r].data
    /\ inputValid' = TRUE
    /\ view' = "VFN_SUCCESS"
    /\ UNCHANGED <<vars, transactionId, calls, fieldValue, otpInput, resend,
                   submission>>

VerificationFails(r) ==
    /\ awaiting = r
    /\ calls[r].op = "verifyOtp"
    /\ Rejects(r)
    /\ awaiting' = None
    /\ lastRequested' = [lastRequested EXCEPT !.verified = FALSE]
    /\ inputValid' = FALSE
    /\ view' = "VFN_ERROR"
    /\ UNCHANGED <<vars, transactionId, calls, fieldValue, signature,
                   otpInput, resend, submission>>

-----------------------------------------------------------------------------
(* The respondent submits the form, and the server judges the field *)

(* The OTP box is part of the form and is required while it is shown or    *)
(* the field has a value.                                                  *)
FormValid ==
    /\ inputValid
    /\ Required => fieldValue # Empty
    /\ \/ view \in {"VFN_WAITING_FOR_INPUT", "VFN_SUBMITTED", "VFN_ERROR"}
       \/ fieldValue # Empty
       => otpInput # None

ClickSubmit ==
    /\ submission.state = "none"
    /\ FormValid
    /\ submission' = [NoSubmission EXCEPT !.state = "posted",
                                          !.answer = fieldValue,
                                          !.signature = signature]
    /\ UNCHANGED <<vars, transactionId, calls, awaiting, fieldValue,
                   signature, inputValid, otpInput, lastRequested, view,
                   resend>>

(* Mutant: the answer is left out of the comparison.                       *)
authenticate_AnyAnswer(sig, answer) ==
    /\ sig.fieldId = TheField
    /\ now - sig.signedAt < TRANSACTION_EXPIRE_AFTER_SECONDS

(* The SDK: a signature over this field and answer, as old as a            *)
(* transaction may be.                                                     *)
authenticate(sig, answer) ==
    /\ sig.fieldId = TheField
    /\ sig.answer = answer
    /\ now - sig.signedAt < TRANSACTION_EXPIRE_AFTER_SECONDS

isSignatureValid(sig, answer) == sig # None /\ authenticate(sig, answer)

isAnswerValid(sig, answer) ==
    IF answer = Empty THEN ~Required ELSE isSignatureValid(sig, answer)

AcceptSubmission ==
    /\ submission.state = "posted"
    /\ isAnswerValid(submission.signature, submission.answer)
    /\ submission' = [submission EXCEPT !.state = "accepted"]
    /\ UNCHANGED <<vars, transactionId, calls, awaiting, fieldValue,
                   signature, inputValid, otpInput, lastRequested, view,
                   resend>>

(* The field or anything else in the form is rejected: the page goes back  *)
(* to the form as it was saved when Submit was pressed.                    *)
RejectSubmission ==
    /\ submission.state = "posted"
    /\ signature' = submission.signature
    /\ submission' = NoSubmission
    /\ UNCHANGED <<vars, transactionId, calls, awaiting, fieldValue,
                   inputValid, otpInput, lastRequested, view, resend>>

-----------------------------------------------------------------------------
(* The service *)

(* A call reaches the server, which reads the transaction.                 *)
Arrive(r) ==
    /\ calls[r] # None
    /\ \/ /\ calls[r].op = "reset"
          /\ StartReset(r, transactionId, TheField)
       \/ /\ calls[r].op = "getNewOtp"
          /\ StartGetNewOtp(r, transactionId, TheField, calls[r].answer)
       \/ /\ calls[r].op = "verifyOtp"
          /\ StartVerifyOtp(r, transactionId, TheField, calls[r].otp)
    /\ UNCHANGED pageVars

Serve(r) ==
    /\ Continue(r)
    /\ request[r].answer = Empty => sent' = sent
    /\ UNCHANGED pageVars

(* The service's failures need no action here: a handler that dies takes   *)
(* no further step, and the page may see any call fail at any time.        *)
ServerEnvironment ==
    /\ (\E t \in TransactionIds : ExpireTransaction(t)) \/ Tick
    /\ UNCHANGED pageVars

-----------------------------------------------------------------------------

Respondent ==
    \/ \E value \in Answers : EditValue(value)
    \/ ClickGetNewOtp
    \/ \E otp \in Otps : ClickVerifyOtp(otp)
    \/ ClickSubmit

Settle(r) ==
    \/ NewOtpResolves(r)
    \/ NewOtpRejects(r)
    \/ VerificationSucceeds(r)
    \/ VerificationFails(r)

NotRespondent ==
    \/ \E t \in TransactionIds : OpenTransaction(t)
    \/ \E r \in Requests : Settle(r)
    \/ \E d \in resend.timers : ResendTimer(d)
    \/ AcceptSubmission
    \/ RejectSubmission
    \/ \E r \in Requests : Arrive(r) \/ Serve(r)
    \/ ServerEnvironment

PageNext == Respondent \/ NotRespondent

PageSpec == PageInit /\ [][PageNext]_allVars

(* Calls arrive, the server's event loop runs every continuation whose     *)
(* promise has settled, and answers come back.                             *)
PageFairness ==
    \A r \in Requests : /\ WF_allVars(Arrive(r))
                        /\ WF_allVars(Serve(r))
                        /\ WF_allVars(Settle(r))

FairPageSpec == PageSpec /\ PageFairness

-----------------------------------------------------------------------------
(* Properties *)

PageTypeOK ==
    /\ transactionId \in TransactionIds \cup {None}
    /\ calls \in [Requests -> Calls \cup {None}]
    /\ awaiting \in Requests \cup {None}
    /\ fieldValue \in Answers
    /\ signature \in Signatures \cup {None}
    /\ inputValid \in BOOLEAN
    /\ otpInput \in Otps \cup {None}
    /\ lastRequested \in [value : Answers \cup {None}, verified : BOOLEAN,
                          signature : Signatures \cup {None}]
    /\ view \in Views
    /\ resend \in [overrideDisabled : BOOLEAN, timers : SUBSET Time]
    /\ submission \in [state : {"none", "posted", "accepted"},
                       answer : Answers \cup {None},
                       signature : Signatures \cup {None}]

(* What the field is for: when the server accepts a submission with an     *)
(* answer in the field, an OTP was sent to that very answer and somebody   *)
(* gave it back, whatever was edited, lost, late or out of order on the    *)
(* way (the comment in resetFieldInTransaction relies on this: "The        *)
(* signature will be wrong anyway if it fails, and submission will be      *)
(* prevented").                                                            *)
AcceptedIsVerified ==
    submission.state = "accepted" /\ submission.answer # Empty =>
        \E d \in ProvenDeliveries :
            /\ d.fieldId = TheField
            /\ d.recipient = submission.answer

(* The page lets no unverified answer through: a field that holds an       *)
(* answer and has lost its 'verified' error carries a signature, also when *)
(* answers to old calls arrive after an edit.                              *)
ValidInputIsSigned ==
    inputValid /\ fieldValue # Empty => signature # None

(* "Answer has been verified successfully" (the comment on VFN_SUCCESS):   *)
(* while the tick shows, the field carries a signature over the answer in  *)
(* it.                                                                     *)
TickMeansVerified ==
    view = "VFN_SUCCESS" =>
        /\ signature # None
        /\ signature.fieldId = TheField
        /\ signature.answer = fieldValue

(* The widget never stays loading: it is usable again after every OTP it   *)
(* requests and every OTP it submits.                                      *)
LoadingEnds == isLoading ~> ~isLoading

(* The widget ends its loading, and the server answers every request that  *)
(* it has started on.                                                      *)
EveryCallEnds == LoadingEnds /\ EveryRequestAnswered

(* A respondent who waits for every answer before going on, and whose      *)
(* resets succeed.                                                         *)
Settled ==
    /\ ~isLoading
    /\ \A r \in Requests : calls[r] # None =>
          /\ request[r].pc = "done"
          /\ calls[r].op = "reset" => request[r].reply = "OK"

OrderlySpec ==
    PageInit /\ [][(Settled /\ Respondent) \/ NotRespondent]_allVars
=============================================================================
