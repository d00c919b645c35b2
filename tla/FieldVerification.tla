-------------------------- MODULE FieldVerification --------------------------
(***************************************************************************)
(* The one-time-password service behind the verified fields of a public    *)
(* form (verification.server.controller.js, verification.service.js and    *)
(* the Verification model).                                                *)
(*                                                                         *)
(* A browser opens a transaction for a form.  For each verifiable field    *)
(* (an email address or a mobile number) it asks for an OTP, which is sent *)
(* to the answer typed in the field, and then exchanges the OTP for a      *)
(* signature over that answer.                                             *)
(*                                                                         *)
(* Every handler is cut at its awaits: between two awaits the JavaScript   *)
(* runs without interruption, and at an await other requests run.  A       *)
(* handler reads the transaction once, into a snapshot, and works on the   *)
(* snapshot from then on; only the updateOne calls touch the database.     *)
(***************************************************************************)
EXTENDS Integers, FiniteSets

CONSTANTS
    TransactionIds,     \* ObjectIds of transactions; an id is never reused
    FieldIds,           \* the form's fields
    Answers,            \* what can be typed in a field
    Otps,               \* the values otpGenerator can return
    Requests,           \* HTTP requests; each is served once
    None,               \* null
    WAIT_FOR_OTP_SECONDS,
    HASH_EXPIRE_AFTER_SECONDS,
    TRANSACTION_EXPIRE_AFTER_SECONDS,
    NUM_OTP_RETRIES,
    MaxTime             \* bound on the clock, for model checking only

ASSUME TimesAssumption ==
    /\ WAIT_FOR_OTP_SECONDS \in Nat
    /\ HASH_EXPIRE_AFTER_SECONDS \in Nat
    /\ TRANSACTION_EXPIRE_AFTER_SECONDS \in Nat
    /\ NUM_OTP_RETRIES \in Nat
    /\ MaxTime \in Nat

VARIABLES
    now,            \* the clock shared by the servers and the database
    createdIds,     \* ids handed out by the database so far
    verifications,  \* the collection: a document per id, or None
    request,        \* the local state of every request handler
    sent            \* the OTP messages that reached a mailbox or a phone

vars == <<now, createdIds, verifications, request, sent>>

Time == Nat

(***************************************************************************)
(* bcrypt salts every hash, so two hashes of one OTP differ; a request     *)
(* makes at most one hash, and stands for its salt.                        *)
(***************************************************************************)
Hashes == [otp : Otps, salt : Requests]
Hash(otp, r) == [otp |-> otp, salt |-> r]
(* Mutant: bcrypt.compare is not awaited, and a promise is truthy.         *)
Matches_NotAwaited(inputOtp, hash) == TRUE

Matches(inputOtp, hash) == hash.otp = inputOtp

(* What the SDK signs; the signature also carries the time it was made.    *)
Signatures == [transactionId : TransactionIds, fieldId : FieldIds,
               answer : Answers, signedAt : Time]

Messages == [transactionId : TransactionIds, fieldId : FieldIds,
             recipient : Answers, otp : Otps]

VerificationField ==
    [hashCreatedAt : Time \cup {None},
     hashedOtp     : Hashes \cup {None},
     signedData    : Signatures \cup {None},
     hashRetries   : 0..NUM_OTP_RETRIES]

(* fields[f] is None when f was not verifiable as the transaction opened.  *)
Documents == [expireAt : Time,
              fields   : [FieldIds -> VerificationField \cup {None}]]

EmptyField == [hashCreatedAt |-> None, hashedOtp |-> None,
               signedData |-> None, hashRetries |-> 0]

Ops == {"none", "reset", "getNewOtp", "verifyOtp"}

(* Where a handler stands: at its first step after reading the             *)
(* transaction ("fetched"), or waiting for the call it has just made.      *)
InFlightAt == {"fetched", "hashing", "sending", "storing",
               "counting", "comparing"}

Replies == {"OK", "CREATED", "TRANSACTION_NOT_FOUND", "FIELD_NOT_FOUND",
            "WAIT_FOR_OTP", "SEND_OTP_FAILED", "RESEND_OTP", "INVALID_OTP",
            "ERROR"}

(* A handler's locals.  answer and otp are the request's parameters or,    *)
(* for getNewOtp, the OTP it generates; at is the time of that OTP, or the *)
(* time verifyOtp judged the attempt; signedAt is the signature's time.    *)
HandlerStates ==
    [pc : {"new", "done"} \cup InFlightAt, op : Ops,
     transactionId : TransactionIds \cup {None},
     fieldId : FieldIds \cup {None},
     answer : Answers \cup {None}, otp : Otps \cup {None},
     transaction : Documents \cup {None},
     at : Time \cup {None},
     signedAt : Time \cup {None},
     reply : Replies \cup {None},
     data : Signatures \cup {None}]

(* null is neither an error name nor a date nor a signature.               *)
ASSUME NoneAssumption ==
    None \notin Replies /\ None \notin Time /\ None \notin Signatures

NewRequest ==
    [pc |-> "new", op |-> "none", transactionId |-> None, fieldId |-> None,
     answer |-> None, otp |-> None, transaction |-> None, at |-> None,
     signedAt |-> None, reply |-> None, data |-> None]

Init ==
    /\ now = 0
    /\ createdIds = {}
    /\ verifications = [t \in TransactionIds |-> None]
    /\ request = [r \in Requests |-> NewRequest]
    /\ sent = {}

-----------------------------------------------------------------------------
(* Helpers *)

InFlight(r) == request[r].pc \in InFlightAt

(* The field of r's snapshot that r names, or None.                        *)
SnapshotField(r) == request[r].transaction.fields[request[r].fieldId]

Finish(r, reply) ==
    request' = [request EXCEPT ![r] =
                   [@ EXCEPT !.pc = "done", !.reply = reply]]

(* updateOne({_id: t, 'fields._id': f}) finds something to update.         *)
HasField(t, f) ==
    /\ verifications[t] # None
    /\ verifications[t].fields[f] # None

WithField(document, f, field) ==
    [expireAt |-> document.expireAt,
     fields   |-> [document.fields EXCEPT ![f] = field]]

(* Mutant: the write brings a removed document back (save or upsert).      *)
UpdateField_Upserts(t, f, field) ==
    verifications' = [verifications EXCEPT ![t] =
        IF @ # None THEN WithField(@, f, field)
        ELSE [expireAt |-> now,
              fields   |-> [g \in FieldIds |->
                               IF g = f THEN field ELSE None]]]

(* updateOne with a $set on 'fields.$': one field of one document changes, *)
(* atomically, and nothing happens when the document or the field is gone. *)
UpdateField(t, f, field) ==
    verifications' =
        IF HasField(t, f)
        THEN [verifications EXCEPT ![t] = WithField(@, f, field)]
        ELSE verifications

isTransactionExpired(expireAt) == expireAt < now

isHashedOtpExpired(hashCreatedAt) ==
    hashCreatedAt + HASH_EXPIRE_AFTER_SECONDS < now

waitToResendOtpSeconds(hashCreatedAt) ==
    IF hashCreatedAt = None
    THEN 0 ELSE (hashCreatedAt + WAIT_FOR_OTP_SECONDS) - now

-----------------------------------------------------------------------------
(* Opening a transaction, and the first await of the other handlers *)

(* Form.findById and Verification.create: the fields that are verifiable   *)
(* in the form at that moment.  A form without any opens no transaction.   *)
CreateTransaction(t, verifiable) ==
    /\ t \notin createdIds
    /\ verifiable # {}
    /\ createdIds' = createdIds \cup {t}
    /\ verifications' = [verifications EXCEPT ![t] =
           [expireAt |-> now + TRANSACTION_EXPIRE_AFTER_SECONDS,
            fields   |-> [f \in FieldIds |->
                             IF f \in verifiable THEN EmptyField ELSE None]]]
    /\ UNCHANGED <<now, request, sent>>

(* getTransaction: the handler's only read of the transaction.             *)
GetTransaction(r, op, t, f, answer, otp) ==
    LET started == [request[r] EXCEPT !.op = op, !.transactionId = t,
                        !.fieldId = f, !.answer = answer, !.otp = otp]
    IN  /\ request[r].pc = "new"
        /\ request' = [request EXCEPT ![r] =
               IF verifications[t] = None
               THEN [started EXCEPT !.pc = "done",
                                    !.reply = "TRANSACTION_NOT_FOUND"]
               ELSE [started EXCEPT !.pc = "fetched",
                                    !.transaction = verifications[t]]]
        /\ UNCHANGED <<now, createdIds, verifications, sent>>

StartReset(r, t, f) == GetTransaction(r, "reset", t, f, None, None)

StartGetNewOtp(r, t, f, answer) ==
    GetTransaction(r, "getNewOtp", t, f, answer, None)

StartVerifyOtp(r, t, f, inputOtp) ==
    GetTransaction(r, "verifyOtp", t, f, None, inputOtp)

-----------------------------------------------------------------------------
(* resetFieldInTransaction *)

(* Mutant: the $set leaves the signature in place.                         *)
ResetField_KeepsSignature(r) ==
    LET t == request[r].transactionId
        f == request[r].fieldId
    IN  /\ request[r].pc = "fetched"
        /\ request[r].op = "reset"
        /\ UpdateField(t, f, [EmptyField EXCEPT
                                  !.signedData = verifications[t].fields[f].signedData])
        /\ Finish(r, IF HasField(t, f) THEN "OK" ELSE "FIELD_NOT_FOUND")
        /\ UNCHANGED <<now, createdIds, sent>>

ResetField(r) ==
    LET t == request[r].transactionId
        f == request[r].fieldId
    IN  /\ request[r].pc = "fetched"
        /\ request[r].op = "reset"
        /\ UpdateField(t, f, EmptyField)
        /\ Finish(r, IF HasField(t, f) THEN "OK" ELSE "FIELD_NOT_FOUND")
        /\ UNCHANGED <<now, createdIds, sent>>

-----------------------------------------------------------------------------
(* getNewOtp *)

(* The error the checks on the snapshot throw, or None.                    *)
GetNewOtpError(r) ==
    IF isTransactionExpired(request[r].transaction.expireAt)
    THEN "TRANSACTION_NOT_FOUND"
    ELSE IF SnapshotField(r) = None THEN "FIELD_NOT_FOUND"
    ELSE IF waitToResendOtpSeconds(SnapshotField(r).hashCreatedAt) > 0
    THEN "WAIT_FOR_OTP"
    ELSE None

RejectNewOtp(r) ==
    /\ request[r].pc = "fetched"
    /\ request[r].op = "getNewOtp"
    /\ GetNewOtpError(r) # None
    /\ Finish(r, GetNewOtpError(r))
    /\ UNCHANGED <<now, createdIds, verifications, sent>>

(* hashCreatedAt is read from the clock, and bcrypt.hash of an OTP started.*)
GenerateOtp(r, otp) ==
    /\ request[r].pc = "fetched"
    /\ request[r].op = "getNewOtp"
    /\ GetNewOtpError(r) = None
    /\ request' = [request EXCEPT ![r] =
           [@ EXCEPT !.pc = "hashing", !.otp = otp, !.at = now]]
    /\ UNCHANGED <<now, createdIds, verifications, sent>>

(* The OTP is hashed; the answer is signed, at the time it is by now.      *)
SignAnswer(r) ==
    /\ request[r].pc = "hashing"
    /\ request' = [request EXCEPT ![r] =
           [@ EXCEPT !.pc = "sending", !.signedAt = now]]
    /\ UNCHANGED <<now, createdIds, verifications, sent>>

OtpMessage(r) ==
    [transactionId |-> request[r].transactionId,
     fieldId |-> request[r].fieldId,
     recipient |-> request[r].answer, otp |-> request[r].otp]

(* sendOTPForField resolves: the message is with the answer's owner.       *)
SendOtp(r) ==
    /\ request[r].pc = "sending"
    /\ sent' = sent \cup {OtpMessage(r)}
    /\ request' = [request EXCEPT ![r].pc = "storing"]
    /\ UNCHANGED <<now, createdIds, verifications>>

(* It rejects.  A gateway that timed out may have delivered all the same.  *)
SendOtpFails(r) ==
    /\ request[r].pc = "sending"
    /\ sent' \in {sent, sent \cup {OtpMessage(r)}}
    /\ Finish(r, "SEND_OTP_FAILED")
    /\ UNCHANGED <<now, createdIds, verifications>>

generateSignature(r) ==
    [transactionId |-> request[r].transactionId,
     fieldId |-> request[r].fieldId,
     answer |-> request[r].answer, signedAt |-> request[r].signedAt]

(* Mutant: the attempts at the OTP before this one are not forgotten.      *)
StoreOtp_KeepsRetries(r) ==
    /\ request[r].pc = "storing"
    /\ UpdateField(request[r].transactionId, request[r].fieldId,
                   [hashCreatedAt |-> request[r].at,
                    hashedOtp     |-> Hash(request[r].otp, r),
                    signedData    |-> generateSignature(r),
                    hashRetries   |-> SnapshotField(r).hashRetries])
    /\ Finish(r, "CREATED")
    /\ UNCHANGED <<now, createdIds, sent>>

(* The updateOne that stores the OTP; its result is not looked at.         *)
StoreOtp(r) ==
    /\ request[r].pc = "storing"
    /\ UpdateField(request[r].transactionId, request[r].fieldId,
                   [hashCreatedAt |-> request[r].at,
                    hashedOtp     |-> Hash(request[r].otp, r),
                    signedData    |-> generateSignature(r),
                    hashRetries   |-> 0])
    /\ Finish(r, "CREATED")
    /\ UNCHANGED <<now, createdIds, sent>>

-----------------------------------------------------------------------------
(* verifyOtp *)

(* Mutant: an OTP does not expire before its transaction.                  *)
CanVerify_NoExpiry(field) ==
    /\ field.hashedOtp # None
    /\ field.hashCreatedAt # None
    /\ field.hashRetries < NUM_OTP_RETRIES

CanVerify(field) ==
    /\ field.hashedOtp # None
    /\ field.hashCreatedAt # None
    /\ ~isHashedOtpExpired(field.hashCreatedAt)
    /\ field.hashRetries < NUM_OTP_RETRIES

VerifyOtpError(r) ==
    IF isTransactionExpired(request[r].transaction.expireAt)
    THEN "TRANSACTION_NOT_FOUND"
    ELSE IF SnapshotField(r) = None THEN "FIELD_NOT_FOUND"
    ELSE IF ~CanVerify(SnapshotField(r)) THEN "RESEND_OTP"
    ELSE None

(* Mutant: nothing answers when there is no OTP to compare with any more.  *)
RejectVerify_NoResend(r) ==
    /\ request[r].pc = "fetched"
    /\ request[r].op = "verifyOtp"
    /\ VerifyOtpError(r) \notin {None, "RESEND_OTP"}
    /\ Finish(r, VerifyOtpError(r))
    /\ UNCHANGED <<now, createdIds, verifications, sent>>

RejectVerify(r) ==
    /\ request[r].pc = "fetched"
    /\ request[r].op = "verifyOtp"
    /\ VerifyOtpError(r) # None
    /\ Finish(r, VerifyOtpError(r))
    /\ UNCHANGED <<now, createdIds, verifications, sent>>

(* The checks pass and the counter's new value is computed.                *)
AcceptVerify(r) ==
    /\ request[r].pc = "fetched"
    /\ request[r].op = "verifyOtp"
    /\ VerifyOtpError(r) = None
    /\ request' = [request EXCEPT ![r] =
           [@ EXCEPT !.pc = "counting", !.at = now]]
    /\ UNCHANGED <<now, createdIds, verifications, sent>>

(* The updateOne reaches the database: the snapshot's count plus one, on   *)
(* whatever the field holds by now.                                        *)
CountRetry(r) ==
    LET t == request[r].transactionId
        f == request[r].fieldId
        retries == SnapshotField(r).hashRetries + 1
    IN  /\ request[r].pc = "counting"
        /\ UpdateField(t, f,
               [verifications[t].fields[f] EXCEPT !.hashRetries = retries])
        /\ request' = [request EXCEPT ![r].pc = "comparing"]
        /\ UNCHANGED <<now, createdIds, sent>>

(* Mutant: the signature is read again after the comparison.               *)
CompareOtp_ReadsAgain(r) ==
    LET t == request[r].transactionId
        f == request[r].fieldId
    IN  /\ request[r].pc = "comparing"
        /\ request' = [request EXCEPT ![r] =
               IF /\ Matches(request[r].otp, SnapshotField(r).hashedOtp)
                  /\ HasField(t, f)
               THEN [@ EXCEPT !.pc = "done", !.reply = "OK",
                              !.data = verifications[t].fields[f].signedData]
               ELSE [@ EXCEPT !.pc = "done", !.reply = "INVALID_OTP"]]
        /\ UNCHANGED <<now, createdIds, verifications, sent>>

(* bcrypt.compare, on the snapshot; a match returns the snapshot's         *)
(* signature.                                                              *)
CompareOtp(r) ==
    /\ request[r].pc = "comparing"
    /\ request' = [request EXCEPT ![r] =
           IF Matches(request[r].otp, SnapshotField(r).hashedOtp)
           THEN [@ EXCEPT !.pc = "done", !.reply = "OK",
                          !.data = SnapshotField(r).signedData]
           ELSE [@ EXCEPT !.pc = "done", !.reply = "INVALID_OTP"]]
    /\ UNCHANGED <<now, createdIds, verifications, sent>>

-----------------------------------------------------------------------------
(* Failures, the database's TTL monitor and time *)

(* A call a handler waits for rejects with any other error, or the process *)
(* dies: the request goes no further.  (A write that was applied although  *)
(* its acknowledgement was lost leaves what the handler's success leaves.) *)
Fail(r) ==
    /\ InFlight(r)
    /\ Finish(r, "ERROR")
    /\ UNCHANGED <<now, createdIds, verifications, sent>>

(* The TTL index removes a document some time after its expireAt.          *)
ExpireTransaction(t) ==
    /\ verifications[t] # None
    /\ verifications[t].expireAt <= now
    /\ verifications' = [verifications EXCEPT ![t] = None]
    /\ UNCHANGED <<now, createdIds, request, sent>>

Tick ==
    /\ now < MaxTime
    /\ now' = now + 1
    /\ UNCHANGED <<createdIds, verifications, request, sent>>

-----------------------------------------------------------------------------

Start(r) ==
    \E t \in TransactionIds, f \in FieldIds :
        \/ StartReset(r, t, f)
        \/ \E answer \in Answers : StartGetNewOtp(r, t, f, answer)
        \/ \E inputOtp \in Otps : StartVerifyOtp(r, t, f, inputOtp)

(* What the server does for a request once it has read the transaction.    *)
Continue(r) ==
    \/ ResetField(r)
    \/ RejectNewOtp(r)
    \/ \E otp \in Otps : GenerateOtp(r, otp)
    \/ SignAnswer(r)
    \/ SendOtp(r)
    \/ SendOtpFails(r)
    \/ StoreOtp(r)
    \/ RejectVerify(r)
    \/ AcceptVerify(r)
    \/ CountRetry(r)
    \/ CompareOtp(r)

Environment ==
    \/ \E t \in TransactionIds, verifiable \in SUBSET FieldIds :
           CreateTransaction(t, verifiable)
    \/ \E t \in TransactionIds : ExpireTransaction(t)
    \/ \E r \in Requests : Fail(r)
    \/ Tick

Next ==
    \/ \E r \in Requests : Start(r) \/ Continue(r)
    \/ Environment

Spec == Init /\ [][Next]_vars

-----------------------------------------------------------------------------
(* Properties *)

TypeOK ==
    /\ now \in Time
    /\ createdIds \subseteq TransactionIds
    /\ verifications \in [TransactionIds -> Documents \cup {None}]
    /\ request \in [Requests -> HandlerStates]
    /\ sent \subseteq Messages

(* One getNewOtp request made all three values a field holds: the time,    *)
(* the hash and the signature; and its message went out before they were   *)
(* stored.  Otherwise the field holds none of them.                        *)
FromOneOtp(t, f, field) ==
    \/ /\ field.hashCreatedAt = None
       /\ field.hashedOtp = None
       /\ field.signedData = None
    \/ \E r \in Requests :
          /\ request[r].op = "getNewOtp"
          /\ request[r].pc = "done"
          /\ request[r].transactionId = t
          /\ request[r].fieldId = f
          /\ request[r].signedAt # None
          /\ field.hashCreatedAt = request[r].at
          /\ field.hashedOtp = Hash(request[r].otp, r)
          /\ field.signedData = generateSignature(r)
          /\ OtpMessage(r) \in sent

(* What the database holds for a field is the work of a single request,    *)
(* however the requests for it overlap: never the hash of one OTP beside   *)
(* the signature over another answer (getNewOtp and resetFieldInTransaction*)
(* write the fields in one updateOne).                                     *)
StoredOtpCoherent ==
    \A t \in TransactionIds, f \in FieldIds :
        HasField(t, f) => FromOneOtp(t, f, verifications[t].fields[f])

(* verifyOtp hands out a signature only to a request whose OTP was sent,   *)
(* for this transaction and field, to the very answer that is signed, even *)
(* when the field was reset, re-requested for another answer or expired    *)
(* while bcrypt.compare was running.                                       *)
SignatureNeedsDeliveredOtp ==
    \A r \in Requests :
        LET data == request[r].data
        IN  data # None =>
              /\ data.transactionId = request[r].transactionId
              /\ data.fieldId = request[r].fieldId
              /\ [transactionId |-> data.transactionId,
                  fieldId |-> data.fieldId,
                  recipient |-> data.answer,
                  otp |-> request[r].otp] \in sent

(* A signature that is handed out was made at most the lifetime of an OTP  *)
(* before verifyOtp judged the attempt, although verifyOtp judges by the   *)
(* time stored beside the signature, taken before the OTP was hashed, and  *)
(* not by the signature's own.                                             *)
SignatureWithinOtpLifetime ==
    \A r \in Requests :
        LET data == request[r].data
        IN  data # None =>
              /\ data.signedAt <= request[r].at
              /\ request[r].at <= data.signedAt + HASH_EXPIRE_AFTER_SECONDS

(* A transaction the TTL monitor removed stays removed: the updateOne of a *)
(* handler that read it before must not write it back.                     *)
ExpiredStaysGone ==
    [][\A t \in createdIds :
           verifications[t] = None => verifications'[t] = None]_vars

(* Every request the server has started on is answered.                    *)
EveryRequestAnswered ==
    \A r \in Requests : InFlight(r) ~> request[r].pc = "done"

-----------------------------------------------------------------------------
(* What a client gets that waits for each answer before it asks again, as  *)
(* the orderly page of VerifiedSubmission does: a serial client.           *)

(* The requests that tried an OTP, by its hash, and had one of the replies.*)
Attempts(hash, replies) ==
    {r \in Requests : /\ request[r].op = "verifyOtp"
                      /\ request[r].reply \in replies
                      /\ SnapshotField(r) # None
                      /\ SnapshotField(r).hashedOtp = hash}

(* A serial client gets NUM_OTP_RETRIES attempts at an OTP and no more:    *)
(* the count verifyOtp writes back from its snapshot loses no attempt.     *)
AttemptsWithinLimit ==
    \A r \in Requests :
        Cardinality(Attempts(Hash(request[r].otp, r), {"OK", "INVALID_OTP"}))
            <= NUM_OTP_RETRIES

(* The OTPs a serial client has stored for a field, without resetting it,  *)
(* are WAIT_FOR_OTP_SECONDS apart.                                         *)
StoredOtpsSpaced ==
    (\A r \in Requests : request[r].op # "reset") =>
        \A r, s \in Requests :
            /\ r # s
            /\ request[r].reply = "CREATED"
            /\ request[s].reply = "CREATED"
            /\ request[r].transactionId = request[s].transactionId
            /\ request[r].fieldId = request[s].fieldId
            => \/ request[r].at >= request[s].at + WAIT_FOR_OTP_SECONDS
               \/ request[s].at >= request[r].at + WAIT_FOR_OTP_SECONDS

(* An OTP a serial client is told was CREATED can be tried NUM_OTP_RETRIES *)
(* times while it lives: RESEND_OTP never comes from the count of attempts *)
(* at an earlier OTP.  (An attempt that ended in an error may count.)      *)
FreshOtpAcceptsAttempts ==
    \A r \in Requests :
        LET field == SnapshotField(r)
        IN  /\ request[r].reply = "RESEND_OTP"
            /\ field.hashedOtp # None
            /\ ~isHashedOtpExpired(field.hashCreatedAt)
            => Cardinality(Attempts(field.hashedOtp,
                                    {"OK", "INVALID_OTP", "ERROR"}))
                   >= NUM_OTP_RETRIES

(* The limits on attempts at an OTP and on new OTPs are what their         *)
(* constants say, in both directions.                                      *)
OtpLimits ==
    AttemptsWithinLimit /\ StoredOtpsSpaced /\ FreshOtpAcceptsAttempts

-----------------------------------------------------------------------------
(* Refinement *)

(* The deliveries that a successful verifyOtp proved.                      *)
ProvenDeliveries ==
    {[transactionId |-> request[r].data.transactionId,
      fieldId |-> request[r].data.fieldId,
      recipient |-> request[r].data.answer,
      otp |-> request[r].otp] :
        r \in {s \in Requests : request[s].data # None}}

VA == INSTANCE VerifiedAnswer
          WITH delivered <- sent, verified <- ProvenDeliveries

(* The service implements VerifiedAnswer: whatever the interleaving, a     *)
(* step delivers an OTP, verifies one delivered answer, or does nothing    *)
(* that the abstract specification can see.                                *)
RefinesVerifiedAnswer == VA!ASpec
=============================================================================
