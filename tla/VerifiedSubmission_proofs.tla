---------------------- MODULE VerifiedSubmission_proofs ----------------------
(***************************************************************************)
(* Proofs about FieldVerification and VerifiedSubmission, for any sets of  *)
(* transactions, fields, answers, OTPs and requests and any expiry times.  *)
(*                                                                         *)
(* The service first, then the page that calls it: the page only starts    *)
(* requests of FieldVerification and reads their answers, so what is       *)
(* proved of the service holds of the service the page talks to.           *)
(***************************************************************************)
EXTENDS VerifiedSubmission, FiniteSetTheorems, TLAPS

(***************************************************************************)
(* The type invariant is inductive on its own.                             *)
(***************************************************************************)

LEMMA EmptyFieldType == EmptyField \in VerificationField
  BY TimesAssumption DEF EmptyField, VerificationField

(* Ending a request keeps the handlers' states well-typed.                 *)
LEMMA FinishType ==
  ASSUME TypeOK, NEW r \in Requests, NEW reply \in Replies, Finish(r, reply)
  PROVE  request' \in [Requests -> HandlerStates]
<1>1. request[r] \in HandlerStates
  BY DEF TypeOK
<1>2. [request[r] EXCEPT !.pc = "done", !.reply = reply] \in HandlerStates
  BY <1>1 DEF HandlerStates
<1>. QED  BY <1>2 DEF TypeOK, Finish

(* A conditional update of one field keeps the collection well-typed.      *)
LEMMA UpdateFieldType ==
  ASSUME TypeOK, NEW t \in TransactionIds, NEW f \in FieldIds, NEW field,
         HasField(t, f) => field \in VerificationField,
         UpdateField(t, f, field)
  PROVE  verifications' \in [TransactionIds -> Documents \cup {None}]
<1>1. CASE HasField(t, f)
  <2>1. verifications[t] \in Documents
    BY <1>1 DEF TypeOK, HasField
  <2>2. WithField(verifications[t], f, field) \in Documents
    BY <1>1, <2>1 DEF Documents, WithField
  <2>. QED  BY <1>1, <2>2 DEF TypeOK, UpdateField
<1>2. CASE ~HasField(t, f)
  BY <1>2 DEF UpdateField, TypeOK
<1>. QED  BY <1>1, <1>2

LEMMA InitType == Init => TypeOK
  BY TimesAssumption
  DEF Init, TypeOK, Time, HandlerStates, NewRequest, Ops, InFlightAt

(* What a handler's pc says of its other locals, besides their types.      *)
HandlerOK(r) ==
    /\ request[r].pc # "new" => /\ request[r].transactionId \in TransactionIds
                                /\ request[r].fieldId \in FieldIds
    /\ InFlight(r) => /\ request[r].transaction \in Documents
                      /\ request[r].answer \in Answers
                            \/ request[r].op # "getNewOtp"
                      /\ request[r].otp \in Otps
                            \/ request[r].op # "verifyOtp"
    /\ request[r].pc # "done" => request[r].data = None
    /\ request[r].pc \in {"hashing", "sending", "storing"} =>
          /\ request[r].op = "getNewOtp"
          /\ request[r].otp \in Otps
          /\ request[r].at \in Time
    /\ request[r].pc \in {"sending", "storing"} => request[r].signedAt \in Time
    /\ request[r].pc \notin {"sending", "storing", "done"} =>
          request[r].signedAt = None
    /\ request[r].pc \in {"counting", "comparing"} =>
          /\ request[r].op = "verifyOtp"
          /\ request[r].at \in Time
          /\ SnapshotField(r) \in VerificationField
          /\ SnapshotField(r) # None
          /\ SnapshotField(r).hashedOtp # None
          /\ SnapshotField(r).hashRetries < NUM_OTP_RETRIES

HandlersOK == \A r \in Requests : HandlerOK(r)

(***************************************************************************)
(* Types and handler states together are inductive: getNewOtp stores an    *)
(* OTP it has, and verifyOtp counts only below the limit.                  *)
(***************************************************************************)

LEMMA InitHandlers == Init => HandlersOK
  BY DEF Init, HandlersOK, HandlerOK, InFlight, InFlightAt, NewRequest

(* Starting a request: it answers 404 or keeps a snapshot.                 *)
LEMMA StartTypes ==
  ASSUME TypeOK, HandlersOK, NEW r \in Requests, Start(r)
  PROVE  TypeOK' /\ HandlersOK'
<1>. PICK t \in TransactionIds, f \in FieldIds, op \in Ops,
          answer \in Answers \cup {None}, otp \in Otps \cup {None} :
       /\ GetTransaction(r, op, t, f, answer, otp)
       /\ op = "getNewOtp" => answer \in Answers
       /\ op = "verifyOtp" => otp \in Otps
  BY DEF Start, StartReset, StartGetNewOtp, StartVerifyOtp, Ops
<1>1. request[r] \in HandlerStates
  BY DEF TypeOK
<1>2. request[r].pc = "new"
  BY DEF GetTransaction
<1>3. request[r].data = None /\ request[r].signedAt = None
  BY <1>2 DEF HandlersOK, HandlerOK
<1>4. CASE verifications[t] = None
  <2>. DEFINE h == [request[r] EXCEPT !.op = op, !.transactionId = t,
                        !.fieldId = f, !.answer = answer, !.otp = otp,
                        !.pc = "done", !.reply = "TRANSACTION_NOT_FOUND"]
  <2>1. request' = [request EXCEPT ![r] = h]
    BY <1>1, <1>4 DEF GetTransaction, HandlerStates
  <2>2. h \in HandlerStates
    <3>1. "TRANSACTION_NOT_FOUND" \in Replies
      BY DEF Replies
    <3>. QED  BY <1>1, <3>1, ZenonT(60) DEF HandlerStates
  <2>3. TypeOK'
    BY <2>1, <2>2 DEF TypeOK, GetTransaction
  <2>4. /\ h.pc = "done"
        /\ h.transactionId = t
        /\ h.fieldId = f
    BY <1>1 DEF HandlerStates
  <2>5. HandlersOK'
    BY <2>1, <2>4 DEF HandlersOK, HandlerOK, InFlight, InFlightAt, TypeOK, SnapshotField
  <2>. QED  BY <2>3, <2>5
<1>5. CASE verifications[t] # None
  <2>. DEFINE h == [request[r] EXCEPT !.op = op, !.transactionId = t,
                        !.fieldId = f, !.answer = answer, !.otp = otp,
                        !.pc = "fetched", !.transaction = verifications[t]]
  <2>1. request' = [request EXCEPT ![r] = h]
    BY <1>1, <1>5 DEF GetTransaction, HandlerStates
  <2>2. verifications[t] \in Documents
    BY <1>5 DEF TypeOK
  <2>3. h \in HandlerStates
    BY <1>1, <2>2, ZenonT(60) DEF HandlerStates, InFlightAt
  <2>4. TypeOK'
    BY <2>1, <2>3 DEF TypeOK, GetTransaction
  <2>5. /\ h.pc = "fetched"
        /\ h.transactionId = t
        /\ h.fieldId = f
        /\ h.op = op
        /\ h.answer = answer
        /\ h.otp = otp
        /\ h.data = None
        /\ h.signedAt = None
        /\ h.transaction = verifications[t]
    BY <1>1, <1>3 DEF HandlerStates
  <2>6. HandlersOK'
    BY <2>1, <2>2, <2>5
    DEF HandlersOK, HandlerOK, InFlight, InFlightAt, TypeOK, SnapshotField
  <2>. QED  BY <2>4, <2>6
<1>. QED  BY <1>4, <1>5

(* Ending a request that has not handed out a signature.                   *)
LEMMA FinishHandlers ==
  ASSUME TypeOK, HandlersOK, NEW r \in Requests, request[r].pc # "new",
         NEW reply \in Replies, Finish(r, reply)
  PROVE  HandlersOK'
<1>1. request[r] \in HandlerStates
  BY DEF TypeOK
<1>2. /\ request'[r].pc = "done"
      /\ request'[r].transactionId = request[r].transactionId
      /\ request'[r].fieldId = request[r].fieldId
      /\ \A s \in Requests \ {r} : request'[s] = request[s]
  BY <1>1 DEF Finish, HandlerStates, TypeOK
<1>. QED
  BY <1>2 DEF HandlersOK, HandlerOK, InFlight, InFlightAt, SnapshotField

LEMMA ResetTypes ==
  ASSUME TypeOK, HandlersOK, NEW r \in Requests, ResetField(r)
  PROVE  TypeOK' /\ HandlersOK'
<1>1. /\ request[r].transactionId \in TransactionIds
      /\ request[r].fieldId \in FieldIds
  BY DEF HandlersOK, HandlerOK, ResetField
<1>2. verifications' \in [TransactionIds -> Documents \cup {None}]
  BY <1>1, EmptyFieldType, UpdateFieldType DEF ResetField
<1>3. PICK reply \in Replies : Finish(r, reply)
  BY DEF ResetField, Replies
<1>4. TypeOK'
  BY <1>2, <1>3, FinishType DEF TypeOK, ResetField
<1>5. HandlersOK'
  BY <1>3, FinishHandlers DEF ResetField
<1>. QED  BY <1>4, <1>5

LEMMA RejectTypes ==
  ASSUME TypeOK, HandlersOK, NEW r \in Requests,
         RejectNewOtp(r) \/ RejectVerify(r)
  PROVE  TypeOK' /\ HandlersOK'
<1>1. PICK reply \in Replies : Finish(r, reply)
  BY DEF RejectNewOtp, RejectVerify, GetNewOtpError, VerifyOtpError, Replies
<1>2. TypeOK'
  BY <1>1, FinishType DEF TypeOK, RejectNewOtp, RejectVerify
<1>3. HandlersOK'
  BY <1>1, FinishHandlers DEF RejectNewOtp, RejectVerify
<1>. QED  BY <1>2, <1>3

LEMMA GenerateTypes ==
  ASSUME TypeOK, HandlersOK, NEW r \in Requests, NEW otp \in Otps,
         GenerateOtp(r, otp)
  PROVE  TypeOK' /\ HandlersOK'
<1>. DEFINE h == [request[r] EXCEPT !.pc = "hashing", !.otp = otp, !.at = now]
<1>1. request[r] \in HandlerStates
  BY DEF TypeOK
<1>2. request' = [request EXCEPT ![r] = h]
  BY DEF GenerateOtp
<1>3. h \in HandlerStates
  BY <1>1 DEF HandlerStates, InFlightAt, TypeOK
<1>4. TypeOK'
  BY <1>2, <1>3 DEF TypeOK, GenerateOtp
<1>5. /\ h.pc = "hashing"
      /\ h.otp = otp
      /\ h.at = now
      /\ h.op = request[r].op
      /\ h.signedAt = request[r].signedAt
      /\ h.data = request[r].data
      /\ h.answer = request[r].answer
      /\ h.transaction = request[r].transaction
      /\ h.transactionId = request[r].transactionId
      /\ h.fieldId = request[r].fieldId
  BY <1>1 DEF HandlerStates
<1>6. HandlersOK'
  BY <1>2, <1>5
  DEF GenerateOtp, HandlersOK, HandlerOK, InFlight, InFlightAt, TypeOK,
      SnapshotField
<1>. QED  BY <1>4, <1>6

LEMMA SignTypes ==
  ASSUME TypeOK, HandlersOK, NEW r \in Requests, SignAnswer(r)
  PROVE  TypeOK' /\ HandlersOK'
<1>. DEFINE h == [request[r] EXCEPT !.pc = "sending", !.signedAt = now]
<1>1. request[r] \in HandlerStates
  BY DEF TypeOK
<1>2. request' = [request EXCEPT ![r] = h]
  BY DEF SignAnswer
<1>3. h \in HandlerStates
  BY <1>1 DEF HandlerStates, InFlightAt, TypeOK
<1>4. TypeOK'
  BY <1>2, <1>3 DEF TypeOK, SignAnswer
<1>5. /\ h.pc = "sending"
      /\ h.signedAt = now
      /\ h.otp = request[r].otp
      /\ h.at = request[r].at
      /\ h.op = request[r].op
      /\ h.data = request[r].data
      /\ h.answer = request[r].answer
      /\ h.transaction = request[r].transaction
      /\ h.transactionId = request[r].transactionId
      /\ h.fieldId = request[r].fieldId
  BY <1>1 DEF HandlerStates
<1>6. HandlersOK'
  BY <1>2, <1>5
  DEF SignAnswer, HandlersOK, HandlerOK, InFlight, InFlightAt, TypeOK,
      SnapshotField
<1>. QED  BY <1>4, <1>6

(* Only pc changes, to another step of the same handler.                   *)
LEMMA AdvanceTypes ==
  ASSUME TypeOK, HandlersOK, NEW r \in Requests, NEW pc,
         \/ request[r].pc = "sending" /\ pc = "storing"
         \/ request[r].pc = "counting" /\ pc = "comparing",
         request' = [request EXCEPT ![r].pc = pc]
  PROVE  /\ request' \in [Requests -> HandlerStates]
         /\ HandlersOK'
<1>1. request[r] \in HandlerStates
  BY DEF TypeOK
<1>2. [request[r] EXCEPT !.pc = pc] \in HandlerStates
  BY <1>1 DEF HandlerStates, InFlightAt
<1>3. request' = [request EXCEPT ![r] = [request[r] EXCEPT !.pc = pc]]
  OBVIOUS
<1>4. HandlerOK(r)'
  <2>1. /\ request'[r].pc = pc /\ request'[r].op = request[r].op
        /\ request'[r].transactionId = request[r].transactionId
        /\ request'[r].fieldId = request[r].fieldId
        /\ request'[r].transaction = request[r].transaction
        /\ request'[r].answer = request[r].answer
        /\ request'[r].otp = request[r].otp /\ request'[r].at = request[r].at
        /\ request'[r].signedAt = request[r].signedAt
        /\ request'[r].data = request[r].data
    BY <1>1 DEF HandlerStates, TypeOK
  <2>2. HandlerOK(r)
    BY DEF HandlersOK
  <2>. QED  BY <2>1, <2>2 DEF HandlerOK, InFlight, InFlightAt, SnapshotField
<1>5. ASSUME NEW q \in Requests, q # r
      PROVE  HandlerOK(q)'
  <2>1. request'[q] = request[q]
    BY <1>5 DEF TypeOK
  <2>2. HandlerOK(q)
    BY DEF HandlersOK
  <2>. QED  BY <2>1, <2>2 DEF HandlerOK, InFlight, SnapshotField
<1>. QED  BY <1>2, <1>3, <1>4, <1>5 DEF TypeOK, HandlersOK

LEMMA MessageType ==
  ASSUME TypeOK, HandlersOK, NEW r \in Requests,
         request[r].pc \in {"sending", "storing"}
  PROVE  OtpMessage(r) \in Messages
  BY DEF OtpMessage, Messages, HandlersOK, HandlerOK, InFlight, InFlightAt

LEMMA SendTypes ==
  ASSUME TypeOK, HandlersOK, NEW r \in Requests,
         SendOtp(r) \/ SendOtpFails(r)
  PROVE  TypeOK' /\ HandlersOK'
<1>1. CASE SendOtp(r)
  BY <1>1, MessageType, AdvanceTypes DEF SendOtp, TypeOK
<1>2. CASE SendOtpFails(r)
  <2>1. Finish(r, "SEND_OTP_FAILED") /\ "SEND_OTP_FAILED" \in Replies
    BY <1>2 DEF SendOtpFails, Replies
  <2>2. TypeOK'
    BY <1>2, <2>1, MessageType, FinishType DEF SendOtpFails, TypeOK
  <2>3. HandlersOK'
    BY <1>2, <2>1, FinishHandlers DEF SendOtpFails
  <2>. QED  BY <2>2, <2>3
<1>. QED  BY <1>1, <1>2

LEMMA StoreTypes ==
  ASSUME TypeOK, HandlersOK, NEW r \in Requests, StoreOtp(r)
  PROVE  TypeOK' /\ HandlersOK'
<1>. DEFINE field == [hashCreatedAt |-> request[r].at,
                      hashedOtp     |-> Hash(request[r].otp, r),
                      signedData    |-> generateSignature(r),
                      hashRetries   |-> 0]
<1>1. /\ request[r].transactionId \in TransactionIds
      /\ request[r].fieldId \in FieldIds
      /\ request[r].answer \in Answers
      /\ request[r].otp \in Otps
      /\ request[r].at \in Time
      /\ request[r].signedAt \in Time
  BY DEF HandlersOK, HandlerOK, StoreOtp, InFlight, InFlightAt
<1>2. field \in VerificationField
  BY <1>1, TimesAssumption
  DEF VerificationField, Hash, Hashes, generateSignature, Signatures
<1>3. verifications' \in [TransactionIds -> Documents \cup {None}]
  BY <1>1, <1>2, UpdateFieldType DEF StoreOtp
<1>4. Finish(r, "CREATED") /\ "CREATED" \in Replies
  BY DEF StoreOtp, Replies
<1>5. TypeOK'
  BY <1>3, <1>4, FinishType DEF StoreOtp, TypeOK
<1>6. HandlersOK'
  BY <1>4, FinishHandlers DEF StoreOtp
<1>. QED  BY <1>5, <1>6

LEMMA AcceptTypes ==
  ASSUME TypeOK, HandlersOK, NEW r \in Requests, AcceptVerify(r)
  PROVE  TypeOK' /\ HandlersOK'
<1>. DEFINE h == [request[r] EXCEPT !.pc = "counting", !.at = now]
<1>1. request[r] \in HandlerStates
  BY DEF TypeOK
<1>2. request' = [request EXCEPT ![r] = h]
  BY DEF AcceptVerify
<1>3. h \in HandlerStates
  BY <1>1 DEF HandlerStates, InFlightAt, TypeOK
<1>4. TypeOK'
  BY <1>2, <1>3 DEF TypeOK, AcceptVerify
<1>5. /\ SnapshotField(r) # None
      /\ CanVerify(SnapshotField(r))
  BY NoneAssumption DEF AcceptVerify, VerifyOtpError, Replies
<1>6. /\ request[r].transaction \in Documents
      /\ request[r].fieldId \in FieldIds
  BY DEF AcceptVerify, HandlersOK, HandlerOK, InFlight, InFlightAt
<1>7. SnapshotField(r) \in VerificationField
  BY <1>5, <1>6 DEF SnapshotField, Documents
<1>8. /\ h.pc = "counting"
      /\ h.otp = request[r].otp
      /\ h.at = now
      /\ h.op = request[r].op
      /\ h.signedAt = request[r].signedAt
      /\ h.data = request[r].data
      /\ h.answer = request[r].answer
      /\ h.transaction = request[r].transaction
      /\ h.transactionId = request[r].transactionId
      /\ h.fieldId = request[r].fieldId
  BY <1>1 DEF HandlerStates
<1>. HIDE DEF h
<1>9. HandlerOK(r)'
  <2>1. request'[r] = h
    BY <1>2 DEF TypeOK
  <2>2. SnapshotField(r)' = SnapshotField(r)
    BY <1>8, <2>1 DEF SnapshotField
  <2>3. /\ InFlight(r) /\ HandlerOK(r) /\ request[r].pc = "fetched"
        /\ request[r].op = "verifyOtp" /\ now \in Time
    BY DEF AcceptVerify, HandlersOK, InFlight, InFlightAt, TypeOK
  <2>. QED  BY <1>5, <1>7, <1>8, <2>1, <2>2, <2>3
            DEF HandlerOK, InFlight, InFlightAt, CanVerify
<1>10. ASSUME NEW q \in Requests, q # r
       PROVE  HandlerOK(q)'
  <2>1. request'[q] = request[q]
    BY <1>2, <1>10 DEF TypeOK
  <2>2. HandlerOK(q)
    BY DEF HandlersOK
  <2>. QED  BY <2>1, <2>2 DEF HandlerOK, InFlight, SnapshotField
<1>. QED  BY <1>4, <1>9, <1>10 DEF HandlersOK

LEMMA CountTypes ==
  ASSUME TypeOK, HandlersOK, NEW r \in Requests, CountRetry(r)
  PROVE  TypeOK' /\ HandlersOK'
<1>. DEFINE t == request[r].transactionId
            f == request[r].fieldId
            field == [verifications[t].fields[f] EXCEPT
                          !.hashRetries = SnapshotField(r).hashRetries + 1]
<1>1. /\ t \in TransactionIds
      /\ f \in FieldIds
      /\ SnapshotField(r) \in VerificationField
      /\ SnapshotField(r).hashRetries < NUM_OTP_RETRIES
  BY DEF HandlersOK, HandlerOK, CountRetry
<1>2. SnapshotField(r).hashRetries + 1 \in 0..NUM_OTP_RETRIES
  BY <1>1, TimesAssumption DEF VerificationField
<1>3. ASSUME HasField(t, f)
      PROVE  field \in VerificationField
  <2>1. verifications[t].fields[f] \in VerificationField
    BY <1>1, <1>3 DEF HasField, TypeOK, Documents
  <2>. QED  BY <1>2, <2>1 DEF VerificationField
<1>4. verifications' \in [TransactionIds -> Documents \cup {None}]
  BY <1>1, <1>3, UpdateFieldType DEF CountRetry
<1>5. /\ request' \in [Requests -> HandlerStates]
      /\ HandlersOK'
  BY AdvanceTypes DEF CountRetry
<1>. QED  BY <1>4, <1>5 DEF TypeOK, CountRetry

LEMMA CompareTypes ==
  ASSUME TypeOK, HandlersOK, NEW r \in Requests, CompareOtp(r)
  PROVE  TypeOK' /\ HandlersOK'
<1>1. request[r] \in HandlerStates
  BY DEF TypeOK
<1>2. /\ request[r].transactionId \in TransactionIds
      /\ request[r].fieldId \in FieldIds
      /\ SnapshotField(r) \in VerificationField
  BY DEF HandlersOK, HandlerOK, CompareOtp
<1>3. PICK h \in HandlerStates :
        /\ request' = [request EXCEPT ![r] = h]
        /\ h.pc = "done"
        /\ h.transactionId = request[r].transactionId
        /\ h.fieldId = request[r].fieldId
  <2>. DEFINE h1 == [request[r] EXCEPT !.pc = "done", !.reply = "OK",
                         !.data = SnapshotField(r).signedData]
              h2 == [request[r] EXCEPT !.pc = "done", !.reply = "INVALID_OTP"]
  <2>1. /\ h1 \in HandlerStates
        /\ h2 \in HandlerStates
    <3>1. SnapshotField(r).signedData \in Signatures \cup {None}
      BY <1>2 DEF VerificationField
    <3>2. {"OK", "INVALID_OTP"} \subseteq Replies
      BY DEF Replies
    <3>3. h1 \in HandlerStates
      BY <1>1, <3>1, <3>2, ZenonT(60) DEF HandlerStates
    <3>4. h2 \in HandlerStates
      BY <1>1, <3>2, ZenonT(60) DEF HandlerStates
    <3>. QED  BY <3>3, <3>4
  <2>2. \A h \in {h1, h2} : /\ h.pc = "done"
                            /\ h.transactionId = request[r].transactionId
                            /\ h.fieldId = request[r].fieldId
    BY <1>1 DEF HandlerStates
  <2>3. \/ request' = [request EXCEPT ![r] = h1]
        \/ request' = [request EXCEPT ![r] = h2]
    BY DEF CompareOtp
  <2>. QED  BY <2>1, <2>2, <2>3
<1>4. TypeOK'
  BY <1>3 DEF CompareOtp, TypeOK
<1>5. HandlersOK'
  BY <1>2, <1>3
  DEF HandlersOK, HandlerOK, InFlight, InFlightAt, TypeOK, SnapshotField
<1>. QED  BY <1>4, <1>5

LEMMA EnvironmentTypes ==
  ASSUME TypeOK, HandlersOK, Environment
  PROVE  TypeOK' /\ HandlersOK'
<1>1. ASSUME NEW t \in TransactionIds, NEW verifiable \in SUBSET FieldIds,
             CreateTransaction(t, verifiable)
      PROVE  TypeOK'
  <2>. DEFINE d == [expireAt |-> now + TRANSACTION_EXPIRE_AFTER_SECONDS,
                    fields   |-> [f \in FieldIds |->
                       IF f \in verifiable THEN EmptyField ELSE None]]
  <2>1. d \in Documents
    BY EmptyFieldType, TimesAssumption DEF Documents, Time, TypeOK
  <2>2. verifications' = [verifications EXCEPT ![t] = d]
    BY <1>1 DEF CreateTransaction
  <2>. QED  BY <1>1, <2>1, <2>2 DEF CreateTransaction, TypeOK
<1>2. ASSUME NEW t \in TransactionIds, ExpireTransaction(t)
      PROVE  TypeOK'
  BY <1>2 DEF ExpireTransaction, TypeOK
<1>3. ASSUME NEW r \in Requests, Fail(r)
      PROVE  TypeOK' /\ HandlersOK'
  <2>1. Finish(r, "ERROR") /\ "ERROR" \in Replies /\ request[r].pc # "new"
    BY <1>3 DEF Fail, Replies, InFlight, InFlightAt
  <2>. QED  BY <1>3, <2>1, FinishType, FinishHandlers DEF Fail, TypeOK
<1>4. Tick => TypeOK'
  BY DEF Tick, TypeOK, Time
<1>5. request' = request => HandlersOK'
  BY DEF HandlersOK, HandlerOK, InFlight, SnapshotField
<1>. QED
  BY <1>1, <1>2, <1>3, <1>4, <1>5
  DEF Environment, CreateTransaction, ExpireTransaction, Tick

LEMMA NextTypes ==
  ASSUME TypeOK, HandlersOK, [Next]_vars
  PROVE  TypeOK' /\ HandlersOK'
<1>1. CASE Next
  BY <1>1, StartTypes, ResetTypes, RejectTypes, GenerateTypes, SignTypes, SendTypes,
     StoreTypes, AcceptTypes, CountTypes, CompareTypes, EnvironmentTypes
  DEF Next, Continue
<1>2. CASE UNCHANGED vars
  BY <1>2 DEF vars, TypeOK, HandlersOK, HandlerOK, InFlight, SnapshotField
<1>. QED  BY <1>1, <1>2

(***************************************************************************)
(* A signature is handed out only for a delivered OTP.                     *)
(*                                                                         *)
(* The argument: all that the database and the snapshots ever hold for a   *)
(* field was made by one getNewOtp request, which had sent its OTP before  *)
(* it stored anything; and what a request made never changes once it is    *)
(* done.  So the hash a verifyOtp compares with and the signature it       *)
(* returns, which come from one snapshot, belong to one delivered message. *)
(***************************************************************************)

(* A finished request, a delivered message and the past do not change.     *)
LEMMA Frame ==
  ASSUME TypeOK, [Next]_vars
  PROVE  /\ \A s \in Requests :
               request[s].pc = "done" => request'[s] = request[s]
         /\ sent \subseteq sent'
         /\ now' \in {now, now + 1}
<1>. DEFINE Kept == \A s \in Requests :
                      request[s].pc = "done" => request'[s] = request[s]
<1>1. ASSUME NEW r \in Requests, Start(r)
      PROVE  Kept /\ sent' = sent /\ now' = now
  BY <1>1 DEF Start, StartReset, StartGetNewOtp, StartVerifyOtp,
              GetTransaction, TypeOK
<1>2. ASSUME NEW r \in Requests, NEW reply, Finish(r, reply),
             request[r].pc # "done"
      PROVE  Kept
  BY <1>2 DEF Finish, TypeOK
<1>3. ASSUME NEW r \in Requests, Continue(r)
      PROVE  Kept /\ sent \subseteq sent' /\ now' = now
  <2>1. ASSUME ResetField(r) \/ RejectNewOtp(r) \/ RejectVerify(r)
                 \/ StoreOtp(r) \/ SendOtpFails(r)
        PROVE  Kept /\ sent \subseteq sent' /\ now' = now
    BY <1>2, <2>1
    DEF ResetField, RejectNewOtp, RejectVerify, StoreOtp, SendOtpFails
  <2>2. ASSUME \/ \E otp \in Otps : GenerateOtp(r, otp)
               \/ SignAnswer(r) \/ SendOtp(r) \/ AcceptVerify(r) \/ CountRetry(r)
               \/ CompareOtp(r)
        PROVE  Kept /\ sent \subseteq sent' /\ now' = now
    BY <2>2
    DEF GenerateOtp, SignAnswer, SendOtp, AcceptVerify, CountRetry, CompareOtp, TypeOK
  <2>. QED  BY <1>3, <2>1, <2>2 DEF Continue
<1>4. ASSUME Environment
      PROVE  Kept /\ sent' = sent /\ now' \in {now, now + 1}
  BY <1>2, <1>4
  DEF Environment, CreateTransaction, ExpireTransaction, Fail, Tick,
      InFlight, InFlightAt
<1>5. CASE UNCHANGED vars
  BY <1>5 DEF vars
<1>. QED  BY <1>1, <1>3, <1>4, <1>5 DEF Next

(* What FromOneOtp says of a value stays true of that value.               *)
LEMMA FromOneOtpKept ==
  ASSUME TypeOK, [Next]_vars, NEW t, NEW f, NEW field,
         FromOneOtp(t, f, field)
  PROVE  FromOneOtp(t, f, field)'
  BY Frame DEF FromOneOtp, generateSignature, OtpMessage

SameOtp(old, new) ==
    /\ new.hashCreatedAt = old.hashCreatedAt
    /\ new.hashedOtp = old.hashedOtp
    /\ new.signedData = old.signedData

NoOtp(field) ==
    /\ field.hashCreatedAt = None
    /\ field.hashedOtp = None
    /\ field.signedData = None

(* r's handler, at its last step, stores into f of t the OTP it has sent.  *)
StoresInto(r, t, f) ==
    /\ StoreOtp(r)
    /\ request[r].transactionId = t
    /\ request[r].fieldId = f
    /\ verifications'[t].fields[f] =
          [hashCreatedAt |-> request[r].at,
           hashedOtp     |-> Hash(request[r].otp, r),
           signedData    |-> generateSignature(r),
           hashRetries   |-> 0]

(* r's handler counts an attempt at the OTP that f of t holds.             *)
CountsIn(r, t, f) ==
    /\ CountRetry(r)
    /\ request[r].transactionId = t
    /\ request[r].fieldId = f
    /\ verifications'[t].fields[f].hashRetries =
          SnapshotField(r).hashRetries + 1

(* The ways a field comes to hold what it holds after a step: it held the  *)
(* same OTP before, whose attempts may have been counted; it was just      *)
(* cleared or created; or a getNewOtp just stored into it all three values *)
(* of the OTP it had sent.                                                 *)
LEMMA FieldWritten ==
  ASSUME TypeOK, HandlersOK, [Next]_vars,
         NEW t \in TransactionIds, NEW f \in FieldIds, HasField(t, f)'
  PROVE  \/ /\ HasField(t, f)
            /\ SameOtp(verifications[t].fields[f], verifications'[t].fields[f])
            /\ \/ verifications'[t].fields[f] = verifications[t].fields[f]
               \/ \E r \in Requests : CountsIn(r, t, f)
         \/ /\ NoOtp(verifications'[t].fields[f])
            /\ (\E r \in Requests : ResetField(r)) \/ t \notin createdIds
         \/ \E r \in Requests : StoresInto(r, t, f)
<1>. DEFINE Goal == \/ /\ HasField(t, f)
                       /\ SameOtp(verifications[t].fields[f],
                                  verifications'[t].fields[f])
                       /\ \/ verifications'[t].fields[f] =
                                verifications[t].fields[f]
                          \/ \E r \in Requests : CountsIn(r, t, f)
                    \/ /\ NoOtp(verifications'[t].fields[f])
                       /\ \/ \E r \in Requests : ResetField(r)
                          \/ t \notin createdIds
                    \/ \E r \in Requests : StoresInto(r, t, f)
<1>1. verifications'[t] = verifications[t] => Goal
  BY DEF HasField, SameOtp
<1>2. ASSUME NEW t2 \in TransactionIds, NEW f2 \in FieldIds, NEW field,
             UpdateField(t2, f2, field)
      PROVE  \/ verifications'[t] = verifications[t]
             \/ /\ HasField(t, f)
                /\ verifications'[t].fields[f] = verifications[t].fields[f]
             \/ /\ t = t2
                /\ f = f2
                /\ HasField(t, f)
                /\ verifications'[t].fields[f] = field
  <2>1. CASE ~HasField(t2, f2) \/ t # t2
    BY <1>2, <2>1 DEF UpdateField, TypeOK
  <2>2. CASE HasField(t2, f2) /\ t = t2
    <3>1. verifications[t] \in Documents
      BY <2>2 DEF HasField, TypeOK
    <3>2. verifications'[t] = WithField(verifications[t], f2, field)
      BY <1>2, <2>2 DEF UpdateField, TypeOK
    <3>. QED  BY <2>2, <3>1, <3>2 DEF WithField, Documents, HasField
  <2>. QED  BY <2>1, <2>2
<1>3. ASSUME NEW r \in Requests, ResetField(r)
      PROVE  Goal
  <2>1. /\ request[r].transactionId \in TransactionIds
        /\ request[r].fieldId \in FieldIds
    BY <1>3 DEF HandlersOK, HandlerOK, ResetField
  <2>2. UpdateField(request[r].transactionId, request[r].fieldId, EmptyField)
    BY <1>3 DEF ResetField
  <2>. QED  BY <1>1, <1>2, <1>3, <2>1, <2>2 DEF NoOtp, EmptyField, SameOtp
<1>4. ASSUME NEW r \in Requests, StoreOtp(r)
      PROVE  Goal
  <2>1. /\ request[r].transactionId \in TransactionIds
        /\ request[r].fieldId \in FieldIds
    BY <1>4 DEF HandlersOK, HandlerOK, StoreOtp
  <2>2. UpdateField(request[r].transactionId, request[r].fieldId,
                    [hashCreatedAt |-> request[r].at,
                     hashedOtp     |-> Hash(request[r].otp, r),
                     signedData    |-> generateSignature(r),
                     hashRetries   |-> 0])
    BY <1>4 DEF StoreOtp
  <2>. QED  BY <1>1, <1>2, <1>4, <2>1, <2>2 DEF SameOtp, StoresInto
<1>5. ASSUME NEW r \in Requests, CountRetry(r)
      PROVE  Goal
  <2>. DEFINE t2 == request[r].transactionId
              f2 == request[r].fieldId
              field == [verifications[t2].fields[f2] EXCEPT
                            !.hashRetries = SnapshotField(r).hashRetries + 1]
  <2>1. t2 \in TransactionIds /\ f2 \in FieldIds
    BY <1>5 DEF HandlersOK, HandlerOK, CountRetry
  <2>2. UpdateField(t2, f2, field)
    BY <1>5 DEF CountRetry
  <2>3. HasField(t2, f2) =>
           /\ SameOtp(verifications[t2].fields[f2], field)
           /\ field.hashRetries = SnapshotField(r).hashRetries + 1
    <3>1. HasField(t2, f2) =>
             verifications[t2].fields[f2] \in VerificationField
      BY <2>1 DEF HasField, TypeOK, Documents
    <3>. QED  BY <3>1 DEF SameOtp, VerificationField
  <2>4. \/ verifications'[t] = verifications[t]
        \/ /\ HasField(t, f)
           /\ verifications'[t].fields[f] = verifications[t].fields[f]
        \/ /\ t = t2
           /\ f = f2
           /\ HasField(t, f)
           /\ verifications'[t].fields[f] = field
    BY <1>2, <2>1, <2>2
  <2>. HIDE DEF field
  <2>. QED  BY <1>1, <1>5, <2>3, <2>4 DEF SameOtp, CountsIn
<1>6. ASSUME NEW t2 \in TransactionIds, NEW verifiable \in SUBSET FieldIds,
             CreateTransaction(t2, verifiable)
      PROVE  Goal
  <2>1. CASE t = t2
    BY <1>6, <2>1
    DEF CreateTransaction, TypeOK, HasField, NoOtp, EmptyField
  <2>2. CASE t # t2
    BY <1>1, <1>6, <2>2 DEF CreateTransaction, TypeOK
  <2>. QED  BY <2>1, <2>2
<1>7. ASSUME NEW t2 \in TransactionIds, ExpireTransaction(t2)
      PROVE  Goal
  BY <1>1, <1>7 DEF ExpireTransaction, TypeOK, HasField
<1>8. ASSUME NEW r \in Requests,
             \/ Start(r) \/ RejectNewOtp(r) \/ RejectVerify(r)
             \/ \E otp \in Otps : GenerateOtp(r, otp)
             \/ SignAnswer(r) \/ SendOtp(r) \/ SendOtpFails(r) \/ AcceptVerify(r)
             \/ CompareOtp(r) \/ Fail(r)
      PROVE  verifications' = verifications
  BY <1>8 DEF Start, StartReset, StartGetNewOtp, StartVerifyOtp,
              GetTransaction, RejectNewOtp, RejectVerify, GenerateOtp,
              SignAnswer, SendOtp, SendOtpFails, AcceptVerify, CompareOtp, Fail
<1>9. Tick \/ UNCHANGED vars => verifications' = verifications
  BY DEF Tick, vars
<1>. HIDE DEF Goal
<1>10. Goal
  BY <1>1, <1>3, <1>4, <1>5, <1>6, <1>7, <1>8, <1>9
  DEF Next, Continue, Environment
<1>. QED  BY <1>10 DEF Goal

(* The rest of the inductive invariant: what the snapshots hold was made   *)
(* by one request each, an OTP goes out before it is stored, clocks that   *)
(* were read lie in the past, and an attempt is judged within the OTP's    *)
(* lifetime.                                                               *)
SnapshotsCoherent ==
    \A r \in Requests : InFlight(r) =>
        \A f \in FieldIds : request[r].transaction.fields[f] # None =>
            FromOneOtp(request[r].transactionId, f,
                       request[r].transaction.fields[f])

SentBeforeStored ==
    \A r \in Requests : request[r].pc = "storing" => OtpMessage(r) \in sent

ClocksInPast ==
    \A r \in Requests :
        /\ request[r].at \in Time => request[r].at <= now
        /\ request[r].signedAt \in Time =>
              /\ request[r].at \in Time
              /\ request[r].at <= request[r].signedAt
              /\ request[r].signedAt <= now

AttemptInTime(r) ==
    LET signedAt == SnapshotField(r).signedData.signedAt
    IN  /\ signedAt <= request[r].at
        /\ request[r].at <= signedAt + HASH_EXPIRE_AFTER_SECONDS

AttemptsInTime ==
    \A r \in Requests :
        request[r].pc \in {"counting", "comparing"} => AttemptInTime(r)

IndInv ==
    /\ TypeOK
    /\ HandlersOK
    /\ StoredOtpCoherent
    /\ SnapshotsCoherent
    /\ SentBeforeStored
    /\ ClocksInPast
    /\ AttemptsInTime
    /\ SignatureNeedsDeliveredOtp
    /\ SignatureWithinOtpLifetime

LEMMA InitInv == Init => IndInv
<1>. SUFFICES ASSUME Init
              PROVE  IndInv
  OBVIOUS
<1>1. TypeOK /\ HandlersOK
  BY InitType, InitHandlers
<1>2. \A r \in Requests : request[r] = NewRequest
  BY DEF Init
<1>3. StoredOtpCoherent
  BY DEF Init, StoredOtpCoherent, HasField
<1>4. ASSUME NEW r \in Requests
      PROVE  request[r].at \notin Time /\ request[r].signedAt \notin Time
  <2>1. request[r].at = None /\ request[r].signedAt = None
    BY <1>2 DEF NewRequest
  <2>. QED  BY <2>1, NoneAssumption
<1>. QED
  BY <1>1, <1>2, <1>3, <1>4
  DEF IndInv, SnapshotsCoherent, SentBeforeStored, ClocksInPast,
      AttemptsInTime, SignatureNeedsDeliveredOtp,
      SignatureWithinOtpLifetime, NewRequest, InFlight, InFlightAt

LEMMA StoredCoherentStep ==
  ASSUME IndInv, [Next]_vars
  PROVE  StoredOtpCoherent'
<1>. SUFFICES ASSUME NEW t \in TransactionIds, NEW f \in FieldIds,
                     HasField(t, f)'
              PROVE  FromOneOtp(t, f, verifications[t].fields[f])'
  BY DEF StoredOtpCoherent
<1>1. CASE /\ HasField(t, f)
           /\ SameOtp(verifications[t].fields[f],
                      verifications'[t].fields[f])
  <2>1. PICK d, e : d = verifications[t].fields[f]
                    /\ e = verifications'[t].fields[f]
    OBVIOUS
  <2>2. FromOneOtp(t, f, d)
    BY <1>1, <2>1 DEF IndInv, StoredOtpCoherent
  <2>3. FromOneOtp(t, f, d)'
    BY <2>2, FromOneOtpKept DEF IndInv
  <2>4. SameOtp(d, e)
    BY <1>1, <2>1
  <2>. QED
    BY <2>1, <2>3, <2>4 DEF FromOneOtp, SameOtp
<1>2. CASE NoOtp(verifications'[t].fields[f])
  BY <1>2 DEF NoOtp, FromOneOtp
<1>3. ASSUME NEW r \in Requests, StoresInto(r, t, f)
      PROVE  FromOneOtp(t, f, verifications[t].fields[f])'
  <2>1. /\ request[r].op = "getNewOtp"
        /\ OtpMessage(r) \in sent
        /\ request[r].signedAt # None
    BY <1>3, NoneAssumption
    DEF IndInv, SentBeforeStored, HandlersOK, HandlerOK, StoreOtp, StoresInto
  <2>2. request[r] \in HandlerStates
    BY DEF IndInv, TypeOK
  <2>3. /\ request'[r].pc = "done"
        /\ request'[r].op = request[r].op
        /\ request'[r].transactionId = request[r].transactionId
        /\ request'[r].fieldId = request[r].fieldId
        /\ request'[r].answer = request[r].answer
        /\ request'[r].otp = request[r].otp
        /\ request'[r].at = request[r].at
        /\ request'[r].signedAt = request[r].signedAt
        /\ sent' = sent
    BY <1>3, <2>2
    DEF StoreOtp, Finish, IndInv, TypeOK, HandlerStates, StoresInto
  <2>. QED
    BY <1>3, <2>1, <2>3
    DEF FromOneOtp, generateSignature, OtpMessage, StoresInto
<1>4. \/ /\ HasField(t, f)
         /\ SameOtp(verifications[t].fields[f], verifications'[t].fields[f])
      \/ NoOtp(verifications'[t].fields[f])
      \/ \E r \in Requests : StoresInto(r, t, f)
  BY FieldWritten DEF IndInv
<1>. QED  BY <1>1, <1>2, <1>3, <1>4

(* The effects of the steps on the handler that takes them.                *)
LEMMA StartEffect ==
  ASSUME TypeOK, NEW r \in Requests, Start(r)
  PROVE  /\ \A s \in Requests \ {r} : request'[s] = request[s]
         /\ request'[r].at = request[r].at
         /\ request'[r].signedAt = request[r].signedAt
         /\ request'[r].data = request[r].data
         /\ request'[r].pc \in {"done", "fetched"}
         /\ request'[r].pc = "fetched" =>
               \E t \in TransactionIds :
                  /\ verifications[t] # None
                  /\ request'[r].transaction = verifications[t]
                  /\ request'[r].transactionId = t
         /\ request[r].pc = "new"
<1>. PICK t \in TransactionIds, f \in FieldIds, op \in Ops,
          answer \in Answers \cup {None}, otp \in Otps \cup {None} :
       GetTransaction(r, op, t, f, answer, otp)
  BY DEF Start, StartReset, StartGetNewOtp, StartVerifyOtp, Ops
<1>1. request[r] \in HandlerStates
  BY DEF TypeOK
<1>2. request[r].pc = "new"
  BY DEF GetTransaction
<1>3. CASE verifications[t] = None
  <2>. DEFINE h == [request[r] EXCEPT !.op = op, !.transactionId = t,
                        !.fieldId = f, !.answer = answer, !.otp = otp,
                        !.pc = "done", !.reply = "TRANSACTION_NOT_FOUND"]
  <2>1. request' = [request EXCEPT ![r] = h]
    BY <1>1, <1>3 DEF GetTransaction, HandlerStates
  <2>2. /\ h.pc = "done"
        /\ h.at = request[r].at
        /\ h.signedAt = request[r].signedAt
        /\ h.data = request[r].data
    BY <1>1 DEF HandlerStates
  <2>. HIDE DEF h
  <2>. QED  BY <1>2, <2>1, <2>2 DEF TypeOK
<1>4. CASE verifications[t] # None
  <2>. DEFINE h == [request[r] EXCEPT !.op = op, !.transactionId = t,
                        !.fieldId = f, !.answer = answer, !.otp = otp,
                        !.pc = "fetched", !.transaction = verifications[t]]
  <2>1. request' = [request EXCEPT ![r] = h]
    BY <1>1, <1>4 DEF GetTransaction, HandlerStates
  <2>2. /\ h.pc = "fetched"
        /\ h.at = request[r].at
        /\ h.signedAt = request[r].signedAt
        /\ h.data = request[r].data
        /\ h.transaction = verifications[t]
        /\ h.transactionId = t
    BY <1>1 DEF HandlerStates
  <2>. HIDE DEF h
  <2>. QED  BY <1>2, <1>4, <2>1, <2>2 DEF TypeOK
<1>. QED  BY <1>3, <1>4

(* A step of r's handler that leaves what it was asked, and its snapshot.  *)
SameTask(r) ==
    /\ request'[r].op = request[r].op
    /\ request'[r].transactionId = request[r].transactionId
    /\ request'[r].fieldId = request[r].fieldId
    /\ request'[r].answer = request[r].answer
    /\ request'[r].transaction = request[r].transaction
    /\ \A s \in Requests \ {r} : request'[s] = request[s]

LEMMA GenerateEffect ==
  ASSUME TypeOK, NEW r \in Requests, NEW otp, GenerateOtp(r, otp)
  PROVE  /\ SameTask(r)
         /\ request[r].pc = "fetched"
         /\ request'[r].pc = "hashing"
         /\ request'[r].at = now
         /\ request'[r].signedAt = request[r].signedAt
         /\ request'[r].data = request[r].data
<1>1. request[r] \in HandlerStates
  BY DEF TypeOK
<1>. QED  BY <1>1 DEF GenerateOtp, SameTask, HandlerStates, TypeOK

LEMMA SignEffect ==
  ASSUME TypeOK, NEW r \in Requests, SignAnswer(r)
  PROVE  /\ SameTask(r)
         /\ request[r].pc = "hashing"
         /\ request'[r].pc = "sending"
         /\ request'[r].at = request[r].at
         /\ request'[r].signedAt = now
         /\ request'[r].data = request[r].data
<1>1. request[r] \in HandlerStates
  BY DEF TypeOK
<1>. QED  BY <1>1 DEF SignAnswer, SameTask, HandlerStates, TypeOK

LEMMA SendEffect ==
  ASSUME TypeOK, NEW r \in Requests, SendOtp(r)
  PROVE  /\ SameTask(r)
         /\ request[r].pc = "sending"
         /\ request'[r].pc = "storing"
         /\ request'[r].at = request[r].at
         /\ request'[r].signedAt = request[r].signedAt
         /\ request'[r].otp = request[r].otp
         /\ request'[r].data = request[r].data
<1>1. request[r] \in HandlerStates
  BY DEF TypeOK
<1>. QED  BY <1>1 DEF SendOtp, SameTask, HandlerStates, TypeOK

LEMMA AcceptEffect ==
  ASSUME TypeOK, NEW r \in Requests, AcceptVerify(r)
  PROVE  /\ SameTask(r)
         /\ request[r].pc = "fetched"
         /\ request'[r].pc = "counting"
         /\ request'[r].at = now
         /\ request'[r].signedAt = request[r].signedAt
         /\ request'[r].data = request[r].data
<1>1. request[r] \in HandlerStates
  BY DEF TypeOK
<1>. QED  BY <1>1 DEF AcceptVerify, SameTask, HandlerStates, TypeOK

LEMMA CountEffect ==
  ASSUME TypeOK, NEW r \in Requests, CountRetry(r)
  PROVE  /\ SameTask(r)
         /\ request[r].pc = "counting"
         /\ request'[r].pc = "comparing"
         /\ request'[r].at = request[r].at
         /\ request'[r].signedAt = request[r].signedAt
         /\ request'[r].data = request[r].data
<1>1. request[r] \in HandlerStates
  BY DEF TypeOK
<1>. QED  BY <1>1 DEF CountRetry, SameTask, HandlerStates, TypeOK

LEMMA CompareEffect ==
  ASSUME TypeOK, NEW r \in Requests, CompareOtp(r)
  PROVE  /\ SameTask(r)
         /\ request[r].pc = "comparing"
         /\ request'[r].pc = "done"
         /\ request'[r].at = request[r].at
         /\ request'[r].signedAt = request[r].signedAt
         /\ request'[r].otp = request[r].otp
         /\ request'[r].data =
               IF Matches(request[r].otp, SnapshotField(r).hashedOtp)
               THEN SnapshotField(r).signedData ELSE request[r].data
<1>1. request[r] \in HandlerStates
  BY DEF TypeOK
<1>2. CASE Matches(request[r].otp, SnapshotField(r).hashedOtp)
  <2>1. request' = [request EXCEPT ![r] = [request[r] EXCEPT
            !.pc = "done", !.reply = "OK", !.data = SnapshotField(r).signedData]]
    BY <1>2 DEF CompareOtp
  <2>. QED  BY <1>1, <1>2, <2>1 DEF CompareOtp, SameTask, HandlerStates, TypeOK
<1>3. CASE ~Matches(request[r].otp, SnapshotField(r).hashedOtp)
  <2>1. request' = [request EXCEPT ![r] = [request[r] EXCEPT
            !.pc = "done", !.reply = "INVALID_OTP"]]
    BY <1>3 DEF CompareOtp
  <2>. QED  BY <1>1, <1>3, <2>1 DEF CompareOtp, SameTask, HandlerStates, TypeOK
<1>. QED  BY <1>2, <1>3

(* How one request's handler moves in a step.                              *)
LEMMA RequestStep ==
  ASSUME TypeOK, HandlersOK, [Next]_vars, NEW r \in Requests
  PROVE  \/ request'[r] = request[r]
         \/ request'[r].pc = "done" /\ request'[r].data = None
               /\ request'[r].at = request[r].at
               /\ request'[r].signedAt = request[r].signedAt
         \/ Start(r) /\ request'[r].at = request[r].at
               /\ request'[r].signedAt = request[r].signedAt
         \/ \E otp \in Otps : GenerateOtp(r, otp)
         \/ SignAnswer(r)
         \/ SendOtp(r)
         \/ AcceptVerify(r)
         \/ CountRetry(r)
         \/ CompareOtp(r)
<1>. DEFINE Goal ==
       \/ request'[r] = request[r]
       \/ request'[r].pc = "done" /\ request'[r].data = None
             /\ request'[r].at = request[r].at
             /\ request'[r].signedAt = request[r].signedAt
       \/ Start(r) /\ request'[r].at = request[r].at
               /\ request'[r].signedAt = request[r].signedAt
       \/ \E otp \in Otps : GenerateOtp(r, otp)
       \/ SignAnswer(r)
       \/ SendOtp(r)
       \/ AcceptVerify(r)
       \/ CountRetry(r)
       \/ CompareOtp(r)
<1>1. request[r] \in HandlerStates
  BY DEF TypeOK
<1>2. ASSUME NEW s \in Requests, NEW reply, Finish(s, reply),
             request[s].pc # "done"
      PROVE  Goal
  <2>1. CASE s # r
    BY <1>2, <2>1 DEF Finish, TypeOK
  <2>2. CASE s = r
    <3>1. request[r].data = None
      BY <1>2, <2>2 DEF HandlersOK, HandlerOK
    <3>. QED  BY <1>1, <1>2, <2>2, <3>1 DEF Finish, TypeOK, HandlerStates
  <2>. QED  BY <2>1, <2>2
<1>3. ASSUME NEW s \in Requests, Start(s)
      PROVE  Goal
  BY <1>3, StartEffect
<1>4. ASSUME NEW s \in Requests, s # r,
             \/ \E otp \in Otps : GenerateOtp(s, otp)
             \/ SignAnswer(s)
             \/ SendOtp(s)
             \/ AcceptVerify(s)
             \/ CountRetry(s)
             \/ CompareOtp(s)
      PROVE  request'[r] = request[r]
  BY <1>4 DEF GenerateOtp, SignAnswer, SendOtp, AcceptVerify, CountRetry, CompareOtp, TypeOK
<1>5. ASSUME NEW s \in Requests,
             ResetField(s) \/ RejectNewOtp(s) \/ RejectVerify(s)
               \/ StoreOtp(s) \/ SendOtpFails(s) \/ Fail(s)
      PROVE  \E reply : Finish(s, reply) /\ request[s].pc # "done"
  BY <1>5 DEF ResetField, RejectNewOtp, RejectVerify, StoreOtp, SendOtpFails,
              Fail, InFlight, InFlightAt
<1>6. ASSUME NEW s \in Requests, Continue(s)
      PROVE  Goal
  <2>. HIDE DEF Goal
  <2>1. ASSUME ResetField(s) \/ RejectNewOtp(s) \/ RejectVerify(s)
                 \/ StoreOtp(s) \/ SendOtpFails(s)
        PROVE  Goal
    BY <1>2, <1>5, <2>1
  <2>2. ASSUME \/ \E otp \in Otps : GenerateOtp(s, otp)
               \/ SignAnswer(s) \/ SendOtp(s) \/ AcceptVerify(s) \/ CountRetry(s)
               \/ CompareOtp(s)
        PROVE  Goal
    BY <1>4, <2>2 DEF Goal
  <2>. QED  BY <1>6, <2>1, <2>2 DEF Continue
<1>7. ASSUME Environment
      PROVE  Goal
  <2>1. ASSUME NEW s \in Requests, Fail(s)
        PROVE  Goal
    BY <1>2, <1>5, <2>1
  <2>. QED
    BY <1>7, <2>1 DEF Environment, CreateTransaction, ExpireTransaction, Tick
<1>8. UNCHANGED vars => Goal
  BY DEF vars
<1>. HIDE DEF Goal
<1>9. Goal
  BY <1>3, <1>6, <1>7, <1>8 DEF Next
<1>. QED  BY <1>9 DEF Goal

LEMMA SnapshotsStep ==
  ASSUME IndInv, [Next]_vars
  PROVE  SnapshotsCoherent'
<1>. SUFFICES ASSUME NEW r \in Requests, InFlight(r)',
                     NEW f \in FieldIds,
                     request'[r].transaction.fields[f] # None
              PROVE  FromOneOtp(request[r].transactionId, f,
                                request[r].transaction.fields[f])'
  BY DEF SnapshotsCoherent
<1>1. request[r] \in HandlerStates
  BY DEF IndInv, TypeOK
<1>2. ASSUME InFlight(r),
             request'[r].transaction = request[r].transaction,
             request'[r].transactionId = request[r].transactionId
      PROVE  FromOneOtp(request[r].transactionId, f,
                        request[r].transaction.fields[f])'
  <2>1. FromOneOtp(request[r].transactionId, f,
                   request[r].transaction.fields[f])
    BY <1>2 DEF IndInv, SnapshotsCoherent
  <2>2. PICK t, d : /\ t = request[r].transactionId
                    /\ d = request[r].transaction.fields[f]
    OBVIOUS
  <2>3. FromOneOtp(t, f, d)'
    BY <2>1, <2>2, FromOneOtpKept DEF IndInv
  <2>4. t = request'[r].transactionId /\ d = request'[r].transaction.fields[f]
    BY <1>2, <2>2
  <2>. QED  BY <2>3, <2>4
<1>3. CASE request'[r] = request[r]
  BY <1>2, <1>3 DEF InFlight
<1>4. ASSUME Start(r)
      PROVE  FromOneOtp(request[r].transactionId, f,
                        request[r].transaction.fields[f])'
  <2>1. PICK t \in TransactionIds :
          /\ verifications[t] # None
          /\ request'[r].transaction = verifications[t]
          /\ request'[r].transactionId = t
    BY <1>4, StartEffect DEF InFlight, InFlightAt, IndInv
  <2>2. FromOneOtp(t, f, verifications[t].fields[f])
    BY <2>1 DEF IndInv, StoredOtpCoherent, HasField
  <2>3. PICK d : d = verifications[t].fields[f]
    OBVIOUS
  <2>4. FromOneOtp(t, f, d)'
    BY <2>2, <2>3, FromOneOtpKept DEF IndInv
  <2>5. t = request'[r].transactionId /\ d = request'[r].transaction.fields[f]
    BY <2>1, <2>3
  <2>. QED  BY <2>4, <2>5
<1>5. ASSUME \/ \E otp \in Otps : GenerateOtp(r, otp)
             \/ SignAnswer(r) \/ SendOtp(r) \/ AcceptVerify(r) \/ CountRetry(r)
             \/ CompareOtp(r)
      PROVE  /\ InFlight(r)
             /\ request'[r].transaction = request[r].transaction
             /\ request'[r].transactionId = request[r].transactionId
  BY <1>5, GenerateEffect, SignEffect, SendEffect, AcceptEffect, CountEffect,
     CompareEffect
  DEF InFlight, InFlightAt, SameTask, IndInv
<1>6. request'[r].pc # "done"
  BY DEF InFlight, InFlightAt
<1>. QED
  BY <1>2, <1>3, <1>4, <1>5, <1>6, RequestStep DEF IndInv

LEMMA SentStep ==
  ASSUME IndInv, [Next]_vars
  PROVE  SentBeforeStored'
<1>. SUFFICES ASSUME NEW r \in Requests, request'[r].pc = "storing"
              PROVE  OtpMessage(r)' \in sent'
  BY DEF SentBeforeStored
<1>1. request[r] \in HandlerStates
  BY DEF IndInv, TypeOK
<1>2. CASE request'[r] = request[r]
  BY <1>2, Frame DEF IndInv, SentBeforeStored, OtpMessage
<1>3. CASE SendOtp(r)
  <2>1. OtpMessage(r)' = OtpMessage(r)
    BY <1>3, SendEffect DEF OtpMessage, SameTask, IndInv
  <2>. QED  BY <1>3, <2>1 DEF SendOtp
<1>4. Start(r) => FALSE
  BY StartEffect DEF IndInv
<1>5. ASSUME \/ \E otp \in Otps : GenerateOtp(r, otp)
             \/ SignAnswer(r) \/ AcceptVerify(r) \/ CountRetry(r)
             \/ CompareOtp(r)
      PROVE  FALSE
  BY <1>5, GenerateEffect, SignEffect, AcceptEffect, CountEffect, CompareEffect
  DEF IndInv
<1>. QED  BY <1>2, <1>3, <1>4, <1>5, RequestStep DEF IndInv

LEMMA ClocksStep ==
  ASSUME IndInv, [Next]_vars
  PROVE  ClocksInPast'
<1>. SUFFICES ASSUME NEW r \in Requests
              PROVE  /\ request'[r].at \in Time => request'[r].at <= now'
                     /\ request'[r].signedAt \in Time =>
                           /\ request'[r].at \in Time
                           /\ request'[r].at <= request'[r].signedAt
                           /\ request'[r].signedAt <= now'
  BY DEF ClocksInPast
<1>1. /\ request[r] \in HandlerStates
      /\ now \in Nat
      /\ now' \in Nat
      /\ now <= now'
  BY Frame DEF IndInv, TypeOK, Time
<1>2. CASE /\ request'[r].at = request[r].at
           /\ request'[r].signedAt = request[r].signedAt
  BY <1>1, <1>2 DEF IndInv, ClocksInPast, Time
<1>3. CASE \/ \E otp \in Otps : GenerateOtp(r, otp)
           \/ AcceptVerify(r)
  <2>1. /\ request'[r].at = now
        /\ request'[r].signedAt = request[r].signedAt
        /\ request[r].pc = "fetched"
    BY <1>3, GenerateEffect, AcceptEffect DEF IndInv
  <2>2. request[r].signedAt = None
    BY <2>1 DEF IndInv, HandlersOK, HandlerOK
  <2>. QED  BY <1>1, <2>1, <2>2, NoneAssumption
<1>4. CASE SignAnswer(r)
  <2>1. /\ request'[r].at = request[r].at
        /\ request'[r].signedAt = now
        /\ request[r].pc = "hashing"
    BY <1>4, SignEffect DEF IndInv
  <2>2. request[r].at \in Time /\ request[r].at <= now
    BY <2>1 DEF IndInv, HandlersOK, HandlerOK, ClocksInPast
  <2>. QED  BY <1>1, <2>1, <2>2 DEF Time
<1>5. ASSUME SendOtp(r) \/ CountRetry(r) \/ CompareOtp(r)
      PROVE  /\ request'[r].at = request[r].at
             /\ request'[r].signedAt = request[r].signedAt
  BY <1>5, SendEffect, CountEffect, CompareEffect DEF IndInv
<1>. QED  BY <1>2, <1>3, <1>4, <1>5, RequestStep DEF IndInv

LEMMA AttemptsStep ==
  ASSUME IndInv, [Next]_vars
  PROVE  AttemptsInTime'
<1>. SUFFICES ASSUME NEW r \in Requests,
                     request'[r].pc \in {"counting", "comparing"}
              PROVE  AttemptInTime(r)'
  BY DEF AttemptsInTime
<1>1. request[r] \in HandlerStates
  BY DEF IndInv, TypeOK
<1>2. CASE request'[r] = request[r]
  BY <1>2 DEF IndInv, AttemptsInTime, AttemptInTime, SnapshotField
<1>3. CASE CountRetry(r)
  <2>1. /\ request'[r].transaction = request[r].transaction
        /\ request'[r].fieldId = request[r].fieldId
        /\ request'[r].at = request[r].at
        /\ request[r].pc = "counting"
    BY <1>3, CountEffect DEF SameTask, IndInv
  <2>. QED
    BY <2>1 DEF IndInv, AttemptsInTime, AttemptInTime, SnapshotField
<1>4. CASE AcceptVerify(r)
  <2>1. /\ request'[r].transaction = request[r].transaction
        /\ request'[r].fieldId = request[r].fieldId
        /\ request'[r].at = now
        /\ now \in Nat
        /\ InFlight(r)
        /\ request[r].fieldId \in FieldIds
        /\ request[r].transaction \in Documents
    BY <1>4, AcceptEffect
    DEF SameTask, IndInv, TypeOK, InFlight, InFlightAt, HandlersOK, HandlerOK,
        Time
  <2>2. /\ SnapshotField(r) # None
        /\ CanVerify(SnapshotField(r))
    BY <1>4, NoneAssumption DEF AcceptVerify, VerifyOtpError, Replies
  <2>3. SnapshotField(r) \in VerificationField
    BY <2>1, <2>2 DEF SnapshotField, Documents
  <2>4. /\ SnapshotField(r).hashCreatedAt \in Nat
        /\ now <= SnapshotField(r).hashCreatedAt + HASH_EXPIRE_AFTER_SECONDS
    BY <2>1, <2>2, <2>3, TimesAssumption
    DEF CanVerify, isHashedOtpExpired, VerificationField, Time
  <2>5. FromOneOtp(request[r].transactionId, request[r].fieldId,
                   SnapshotField(r))
    BY <2>1, <2>2 DEF IndInv, SnapshotsCoherent, SnapshotField
  <2>6. PICK q \in Requests :
          /\ SnapshotField(r).hashCreatedAt = request[q].at
          /\ SnapshotField(r).signedData = generateSignature(q)
          /\ request[q].signedAt # None
    BY <2>2, <2>5 DEF FromOneOtp, CanVerify
  <2>7. request[q].signedAt \in Nat
    BY <2>6 DEF IndInv, TypeOK, HandlerStates, Time
  <2>8. /\ request[q].at <= request[q].signedAt
        /\ request[q].signedAt <= now
    BY <2>7 DEF IndInv, ClocksInPast, Time
  <2>9. SnapshotField(r).signedData.signedAt = request[q].signedAt
    BY <2>6 DEF generateSignature
  <2>10. /\ request[q].signedAt <= now
         /\ now <= request[q].signedAt + HASH_EXPIRE_AFTER_SECONDS
    BY <2>1, <2>4, <2>6, <2>7, <2>8, TimesAssumption
  <2>11. SnapshotField(r)' = SnapshotField(r)
    BY <2>1 DEF SnapshotField
  <2>. QED
    BY <2>1, <2>9, <2>10, <2>11 DEF AttemptInTime
<1>5. Start(r) => FALSE
  BY StartEffect DEF IndInv
<1>6. ASSUME \/ \E otp \in Otps : GenerateOtp(r, otp)
             \/ SignAnswer(r) \/ SendOtp(r) \/ CompareOtp(r)
      PROVE  FALSE
  BY <1>6, GenerateEffect, SignEffect, SendEffect, CompareEffect DEF IndInv
<1>. QED  BY <1>2, <1>3, <1>4, <1>5, <1>6, RequestStep DEF IndInv

(* The step that hands out a signature: the snapshot's hash and signature  *)
(* come from one delivered message, and its OTP is the one entered.        *)
LEMMA CompareHandsOut ==
  ASSUME IndInv, NEW r \in Requests, CompareOtp(r), request'[r].data # None
  PROVE  LET data == request'[r].data
         IN  /\ data.transactionId = request[r].transactionId
             /\ data.fieldId = request[r].fieldId
             /\ [transactionId |-> data.transactionId,
                 fieldId |-> data.fieldId,
                 recipient |-> data.answer,
                 otp |-> request[r].otp] \in sent
             /\ data.signedAt = SnapshotField(r).signedData.signedAt
<1>1. /\ InFlight(r)
      /\ request[r].fieldId \in FieldIds
      /\ request[r].data = None
      /\ request[r].transaction \in Documents
      /\ SnapshotField(r).hashedOtp # None
      /\ SnapshotField(r) # None
  <2>1. InFlight(r) /\ request[r].pc = "comparing"
    BY CompareEffect DEF IndInv, InFlight, InFlightAt
  <2>2. /\ request[r].fieldId \in FieldIds
        /\ request[r].data = None
        /\ request[r].transaction \in Documents
        /\ SnapshotField(r).hashedOtp # None
        /\ SnapshotField(r) # None
    BY <2>1 DEF IndInv, HandlersOK, HandlerOK
  <2>. QED  BY <2>1, <2>2
<1>2. FromOneOtp(request[r].transactionId, request[r].fieldId,
                 SnapshotField(r))
  BY <1>1 DEF IndInv, SnapshotsCoherent, SnapshotField
<1>3. PICK q \in Requests :
        /\ request[q].transactionId = request[r].transactionId
        /\ request[q].fieldId = request[r].fieldId
        /\ SnapshotField(r).hashCreatedAt = request[q].at
        /\ SnapshotField(r).hashedOtp = Hash(request[q].otp, q)
        /\ SnapshotField(r).signedData = generateSignature(q)
        /\ OtpMessage(q) \in sent
  BY <1>1, <1>2 DEF FromOneOtp
<1>4. /\ Matches(request[r].otp, SnapshotField(r).hashedOtp)
      /\ request'[r].data = SnapshotField(r).signedData
  BY <1>1, CompareEffect DEF IndInv
<1>5. request[r].otp = request[q].otp
  BY <1>3, <1>4 DEF Matches, Hash
<1>. QED  BY <1>3, <1>4, <1>5 DEF generateSignature, OtpMessage

(* After any step, a request with a signature had it before or compares.   *)
LEMMA SignatureComesFrom ==
  ASSUME IndInv, [Next]_vars, NEW r \in Requests, request'[r].data # None
  PROVE  request'[r] = request[r] \/ CompareOtp(r)
<1>1. ASSUME request[r].pc # "done", request'[r].data = request[r].data
      PROVE  FALSE
  BY <1>1 DEF IndInv, HandlersOK, HandlerOK
<1>. QED
  BY <1>1, RequestStep, StartEffect, GenerateEffect, SignEffect, SendEffect,
     AcceptEffect, CountEffect
  DEF IndInv

LEMMA SignatureStep ==
  ASSUME IndInv, [Next]_vars
  PROVE  SignatureNeedsDeliveredOtp' /\ SignatureWithinOtpLifetime'
<1>1. ASSUME NEW r \in Requests, request'[r].data # None,
             request'[r] = request[r]
      PROVE  /\ request[r].data # None
             /\ sent \subseteq sent'
  BY <1>1, Frame DEF IndInv
<1>2. ASSUME NEW r \in Requests, request'[r].data # None, CompareOtp(r)
      PROVE  /\ request'[r].data.signedAt <= request'[r].at
             /\ request'[r].at <=
                   request'[r].data.signedAt + HASH_EXPIRE_AFTER_SECONDS
             /\ request'[r].data.transactionId = request'[r].transactionId
             /\ request'[r].data.fieldId = request'[r].fieldId
             /\ [transactionId |-> request'[r].data.transactionId,
                 fieldId |-> request'[r].data.fieldId,
                 recipient |-> request'[r].data.answer,
                 otp |-> request'[r].otp] \in sent'
  <2>1. AttemptInTime(r)
    BY <1>2, CompareEffect DEF IndInv, AttemptsInTime
  <2>2. /\ SameTask(r)
        /\ request'[r].at = request[r].at
        /\ request'[r].otp = request[r].otp
        /\ sent' = sent
    BY <1>2, CompareEffect DEF IndInv, CompareOtp
  <2>. QED
    BY <1>2, <2>1, <2>2, CompareHandsOut DEF AttemptInTime, SameTask
<1>. QED
  BY <1>1, <1>2, SignatureComesFrom
  DEF IndInv, SignatureNeedsDeliveredOtp, SignatureWithinOtpLifetime

LEMMA NextInv == IndInv /\ [Next]_vars => IndInv'
<1>. SUFFICES ASSUME IndInv, [Next]_vars
              PROVE  IndInv'
  OBVIOUS
<1>1. TypeOK' /\ HandlersOK'
  BY NextTypes DEF IndInv
<1>. QED
  BY <1>1, StoredCoherentStep, SnapshotsStep, SentStep, ClocksStep,
     AttemptsStep, SignatureStep
  DEF IndInv

LEMMA Invariance == Spec => []IndInv
  BY InitInv, NextInv, PTL DEF Spec

(* Every reachable state is well-typed, for any constants: in particular   *)
(* hashRetries stays within NUM_OTP_RETRIES although verifyOtp writes it   *)
(* from a snapshot, whatever other requests have written in between.       *)
THEOREM TypesHold == Spec => []TypeOK
<1>1. IndInv => TypeOK
  BY DEF IndInv
<1>. QED  BY <1>1, Invariance, PTL

(* The time, the hash and the signature a field holds are always those of  *)
(* one getNewOtp request, whose OTP went out.                              *)
THEOREM CoherenceHolds == Spec => []StoredOtpCoherent
<1>1. IndInv => StoredOtpCoherent
  BY DEF IndInv
<1>. QED  BY <1>1, Invariance, PTL

(* verifyOtp hands out a signature over an answer only for an OTP that was *)
(* sent to that answer, with any number of overlapping requests.           *)
THEOREM SignatureSafe == Spec => []SignatureNeedsDeliveredOtp
<1>1. IndInv => SignatureNeedsDeliveredOtp
  BY DEF IndInv
<1>. QED  BY <1>1, Invariance, PTL

(* ... and only within the lifetime of that OTP.                           *)
THEOREM SignatureTimely == Spec => []SignatureWithinOtpLifetime
<1>1. IndInv => SignatureWithinOtpLifetime
  BY DEF IndInv
<1>. QED  BY <1>1, Invariance, PTL

(* No handler brings back a transaction that has expired.                  *)
THEOREM RemovalIsFinal == Spec => ExpiredStaysGone
<1>1. ASSUME IndInv, [Next]_vars, NEW t \in createdIds,
             verifications[t] = None
      PROVE  verifications'[t] = None
  <2>. USE DEF IndInv
  <2>1. t \in TransactionIds
    BY <1>1 DEF TypeOK
  <2>2. ASSUME NEW t2, NEW f2, NEW field, UpdateField(t2, f2, field)
        PROVE  verifications'[t] = None
    BY <1>1, <2>1, <2>2 DEF UpdateField, HasField, TypeOK
  <2>3. ASSUME NEW r \in Requests, Continue(r)
        PROVE  verifications'[t] = None
    BY <1>1, <2>2, <2>3
    DEF Continue, ResetField, RejectNewOtp, RejectVerify, GenerateOtp,
        SignAnswer, SendOtp, SendOtpFails, StoreOtp, AcceptVerify, CountRetry, CompareOtp
  <2>4. ASSUME NEW r \in Requests, Start(r)
        PROVE  verifications'[t] = None
    BY <1>1, <2>4
    DEF Start, StartReset, StartGetNewOtp, StartVerifyOtp, GetTransaction
  <2>5. ASSUME Environment
        PROVE  verifications'[t] = None
    BY <1>1, <2>1, <2>5
    DEF Environment, CreateTransaction, ExpireTransaction, Fail, Tick, TypeOK
  <2>6. UNCHANGED vars => verifications'[t] = None
    BY <1>1 DEF vars
  <2>. QED  BY <1>1, <2>3, <2>4, <2>5, <2>6 DEF Next
<1>2. IndInv /\ [Next]_vars =>
        [\A t \in createdIds :
            verifications[t] = None => verifications'[t] = None]_vars
  BY <1>1
<1>. QED  BY <1>2, Invariance, PTL DEF Spec, ExpiredStaysGone

(***************************************************************************)
(* Refinement of VerifiedAnswer.                                           *)
(***************************************************************************)

Proof(r) == [transactionId |-> request[r].data.transactionId,
             fieldId |-> request[r].data.fieldId,
             recipient |-> request[r].data.answer,
             otp |-> request[r].otp]

(* A step that neither sends nor compares is invisible to VerifiedAnswer.  *)
LEMMA ProofsKept ==
  ASSUME IndInv, [Next]_vars, NEW q \in Requests,
         \A r \in Requests \ {q} : ~CompareOtp(r)
  PROVE  \/ ProvenDeliveries' = ProvenDeliveries
         \/ /\ CompareOtp(q)
            /\ request'[q].data # None
            /\ ProvenDeliveries' = ProvenDeliveries \cup {Proof(q)'}
<1>1. ASSUME NEW r \in Requests, request[r].data # None
      PROVE  request'[r] = request[r]
  BY <1>1, Frame DEF IndInv, HandlersOK, HandlerOK
<1>2. ASSUME NEW r \in Requests, request'[r].data # None, ~CompareOtp(r)
      PROVE  request'[r] = request[r]
  BY <1>2, SignatureComesFrom
<1>. QED
  BY <1>1, <1>2 DEF ProvenDeliveries, Proof

(* Every step of the service is a step of VerifiedAnswer or invisible.     *)
LEMMA RefinesStep ==
  ASSUME IndInv, [Next]_vars
  PROVE  [VA!ANext]_(VA!avars)
<1>1. ASSUME NEW r \in Requests, CompareOtp(r)
      PROVE  [VA!ANext]_(VA!avars)
  <2>1. \A q \in Requests \ {r} : ~CompareOtp(q)
    <3>1. ASSUME NEW q \in Requests \ {r}, CompareOtp(q)
          PROVE  FALSE
      BY <1>1, <3>1, CompareEffect DEF SameTask, IndInv
    <3>. QED  BY <3>1
  <2>2. sent' = sent
    BY <1>1 DEF CompareOtp
  <2>3. CASE ProvenDeliveries' = ProvenDeliveries
    BY <2>2, <2>3 DEF VA!avars
  <2>4. CASE /\ request'[r].data # None
             /\ ProvenDeliveries' = ProvenDeliveries \cup {Proof(r)'}
    <3>1. request'[r].otp = request[r].otp
      BY <1>1, CompareEffect DEF IndInv
    <3>2. Proof(r)' \in sent
      BY <1>1, <2>4, <3>1, CompareHandsOut DEF Proof
    <3>3. Proof(r)' \in Messages
      BY <3>2 DEF IndInv, TypeOK
    <3>. QED
      BY <2>2, <2>4, <3>2, <3>3 DEF VA!ANext, VA!Verify, VA!Deliveries, Messages
  <2>. QED  BY <2>1, <2>3, <2>4, ProofsKept
<1>2. ASSUME NEW r \in Requests, SendOtp(r) \/ SendOtpFails(r)
      PROVE  [VA!ANext]_(VA!avars)
  <2>1. \A q \in Requests : ~CompareOtp(q)
    <3>1. ASSUME NEW q \in Requests, CompareOtp(q)
          PROVE  FALSE
      <4>1. request[r].pc = "sending" /\ request'[r].pc # "sending"
        BY <1>2 DEF SendOtp, SendOtpFails, Finish, IndInv, TypeOK, HandlerStates
      <4>. QED  BY <3>1, <4>1, CompareEffect DEF SameTask, IndInv
    <3>. QED  BY <3>1
  <2>2. ProvenDeliveries' = ProvenDeliveries
    BY <1>2, <2>1, ProofsKept
  <2>3. OtpMessage(r) \in Messages
    BY <1>2, MessageType DEF IndInv, SendOtp, SendOtpFails
  <2>4. sent' = sent \/ sent' = sent \cup {OtpMessage(r)}
    BY <1>2 DEF SendOtp, SendOtpFails
  <2>. QED
    BY <2>2, <2>3, <2>4
    DEF VA!ANext, VA!Deliver, VA!Deliveries, VA!avars, Messages
<1>3. ASSUME \A r \in Requests :
               ~CompareOtp(r) /\ ~SendOtp(r) /\ ~SendOtpFails(r)
      PROVE  [VA!ANext]_(VA!avars)
  <2>1. sent' = sent
    <3>1. ASSUME NEW r \in Requests, Start(r)
          PROVE  sent' = sent
      BY <3>1
      DEF Start, StartReset, StartGetNewOtp, StartVerifyOtp, GetTransaction
    <3>2. ASSUME NEW r \in Requests, Continue(r)
          PROVE  sent' = sent
      BY <1>3, <3>2
      DEF Continue, ResetField, RejectNewOtp, GenerateOtp, SignAnswer, StoreOtp,
          RejectVerify, AcceptVerify, CountRetry
    <3>3. Environment => sent' = sent
      BY DEF Environment, CreateTransaction, ExpireTransaction, Fail, Tick
    <3>4. UNCHANGED vars => sent' = sent
      BY DEF vars
    <3>. QED  BY <3>1, <3>2, <3>3, <3>4 DEF Next
  <2>2. CASE Requests = {}
    BY <2>1, <2>2 DEF VA!avars, ProvenDeliveries
  <2>3. ASSUME NEW q \in Requests
        PROVE  ProvenDeliveries' = ProvenDeliveries
    BY <1>3, ProofsKept
  <2>. QED  BY <2>1, <2>2, <2>3 DEF VA!avars
<1>. QED  BY <1>1, <1>2, <1>3

(* The service implements VerifiedAnswer, for all values of the constants. *)
THEOREM Refinement == Spec => RefinesVerifiedAnswer
<1>1. Init => VA!AInit
  BY DEF Init, VA!AInit, ProvenDeliveries, NewRequest
<1>2. IndInv /\ [Next]_vars => [VA!ANext]_(VA!avars)
  BY RefinesStep
<1>. QED
  BY <1>1, <1>2, Invariance, PTL DEF Spec, RefinesVerifiedAnswer, VA!ASpec

(***************************************************************************)
(* A serial client: no two of its requests are at work at once.  What the  *)
(* limits on OTPs and on attempts promise is proved for every such client; *)
(* the requests may still fail at any step, and the transaction expire.    *)
(***************************************************************************)

Serial == \A r, s \in Requests : InFlight(r) /\ InFlight(s) => r = s

SerialSpec == Init /\ [][Next /\ Serial']_vars

Judged == {"OK", "INVALID_OTP"}
Tried == {"OK", "INVALID_OTP", "ERROR"}

(* The steps of r's handler between its first read and its answer.         *)
Advances(r) ==
    \/ \E otp \in Otps : GenerateOtp(r, otp)
    \/ SignAnswer(r)
    \/ SendOtp(r)
    \/ AcceptVerify(r)
    \/ CountRetry(r)

(* The steps that answer it.                                               *)
Ends(r) ==
    \/ ResetField(r)
    \/ RejectNewOtp(r)
    \/ SendOtpFails(r)
    \/ StoreOtp(r)
    \/ RejectVerify(r)
    \/ CompareOtp(r)
    \/ Fail(r)

LEMMA StepKinds ==
  ASSUME [Next]_vars
  PROVE  \/ \E r \in Requests : Start(r)
         \/ \E r \in Requests : Advances(r)
         \/ \E r \in Requests : Ends(r)
         \/ request' = request
  BY DEF Next, Continue, Environment, Advances, Ends, CreateTransaction,
         ExpireTransaction, Tick, vars

(* Starting a request: it is answered at once when its transaction is gone *)
(* and works on a snapshot otherwise.                                      *)
LEMMA StartsAs ==
  ASSUME TypeOK, NEW r \in Requests, Start(r)
  PROVE  /\ \A s \in Requests \ {r} : request'[s] = request[s]
         /\ request[r].pc = "new"
         /\ request'[r].op \in {"reset", "getNewOtp", "verifyOtp"}
         /\ request'[r].transactionId \in TransactionIds
         /\ request'[r].fieldId \in FieldIds
         /\ request'[r].at = request[r].at
         /\ \/ /\ request'[r].pc = "done"
               /\ request'[r].reply = "TRANSACTION_NOT_FOUND"
               /\ verifications[request'[r].transactionId] = None
            \/ /\ request'[r].pc = "fetched"
               /\ request'[r].reply = request[r].reply
               /\ verifications[request'[r].transactionId] # None
               /\ request'[r].transaction =
                     verifications[request'[r].transactionId]
         /\ UNCHANGED <<now, createdIds, verifications>>
<1>. PICK t \in TransactionIds, f \in FieldIds,
          op \in {"reset", "getNewOtp", "verifyOtp"},
          answer \in Answers \cup {None}, otp \in Otps \cup {None} :
       GetTransaction(r, op, t, f, answer, otp)
  BY DEF Start, StartReset, StartGetNewOtp, StartVerifyOtp
<1>1. request[r] \in HandlerStates
  BY DEF TypeOK
<1>2. /\ request[r].pc = "new"
      /\ UNCHANGED <<now, createdIds, verifications>>
  BY DEF GetTransaction
<1>3. CASE verifications[t] = None
  <2>. DEFINE h == [request[r] EXCEPT !.op = op, !.transactionId = t,
                        !.fieldId = f, !.answer = answer, !.otp = otp,
                        !.pc = "done", !.reply = "TRANSACTION_NOT_FOUND"]
  <2>1. request' = [request EXCEPT ![r] = h]
    BY <1>1, <1>3 DEF GetTransaction, HandlerStates
  <2>2. /\ h.pc = "done"
        /\ h.at = request[r].at
        /\ h.op = op
        /\ h.transactionId = t
        /\ h.fieldId = f
        /\ h.reply = "TRANSACTION_NOT_FOUND"
    BY <1>1 DEF HandlerStates
  <2>. HIDE DEF h
  <2>. QED  BY <1>2, <1>3, <2>1, <2>2 DEF TypeOK
<1>4. CASE verifications[t] # None
  <2>. DEFINE h == [request[r] EXCEPT !.op = op, !.transactionId = t,
                        !.fieldId = f, !.answer = answer, !.otp = otp,
                        !.pc = "fetched", !.transaction = verifications[t]]
  <2>1. request' = [request EXCEPT ![r] = h]
    BY <1>1, <1>4 DEF GetTransaction, HandlerStates
  <2>2. /\ h.pc = "fetched"
        /\ h.at = request[r].at
        /\ h.op = op
        /\ h.transactionId = t
        /\ h.fieldId = f
        /\ h.reply = request[r].reply
        /\ h.transaction = verifications[t]
    BY <1>1 DEF HandlerStates
  <2>. HIDE DEF h
  <2>. QED  BY <1>2, <1>4, <2>1, <2>2 DEF TypeOK
<1>. QED  BY <1>3, <1>4

LEMMA AdvancesAs ==
  ASSUME TypeOK, NEW r \in Requests, Advances(r)
  PROVE  /\ SameTask(r)
         /\ request[r].pc \in InFlightAt
         /\ request'[r].pc \in InFlightAt \ {"fetched"}
         /\ request'[r].reply = request[r].reply
         /\ UNCHANGED <<now, createdIds>>
<1>1. request[r] \in HandlerStates
  BY DEF TypeOK
<1>2. CASE \E otp \in Otps : GenerateOtp(r, otp)
  BY <1>1, <1>2
  DEF GenerateOtp, SameTask, HandlerStates, TypeOK, InFlightAt
<1>3. CASE SignAnswer(r)
  BY <1>1, <1>3 DEF SignAnswer, SameTask, HandlerStates, TypeOK, InFlightAt
<1>4. CASE SendOtp(r)
  BY <1>1, <1>4 DEF SendOtp, SameTask, HandlerStates, TypeOK, InFlightAt
<1>5. CASE AcceptVerify(r)
  BY <1>1, <1>5 DEF AcceptVerify, SameTask, HandlerStates, TypeOK, InFlightAt
<1>6. CASE CountRetry(r)
  BY <1>1, <1>6 DEF CountRetry, SameTask, HandlerStates, TypeOK, InFlightAt
<1>. QED  BY <1>2, <1>3, <1>4, <1>5, <1>6 DEF Advances

LEMMA FinishAs ==
  ASSUME TypeOK, NEW r \in Requests, NEW reply, Finish(r, reply)
  PROVE  /\ SameTask(r)
         /\ request'[r].pc = "done"
         /\ request'[r].reply = reply
         /\ request'[r].at = request[r].at
<1>1. request[r] \in HandlerStates
  BY DEF TypeOK
<1>. QED  BY <1>1 DEF Finish, SameTask, HandlerStates, TypeOK

LEMMA ComparedAs ==
  ASSUME TypeOK, NEW r \in Requests, CompareOtp(r)
  PROVE  request'[r].reply \in Judged
<1>1. request[r] \in HandlerStates
  BY DEF TypeOK
<1>. QED  BY <1>1 DEF CompareOtp, Judged, TypeOK, HandlerStates

(* The answer a request gets: CREATED once its OTP is stored, and the      *)
(* verdict on an OTP once it is compared.                                  *)
LEMMA EndsAs ==
  ASSUME TypeOK, HandlersOK, NEW r \in Requests, Ends(r)
  PROVE  /\ SameTask(r)
         /\ request[r].pc \in InFlightAt
         /\ request'[r].pc = "done"
         /\ request'[r].at = request[r].at
         /\ request'[r].reply \in Replies
         /\ request'[r].reply = "CREATED" => StoreOtp(r)
         /\ request'[r].reply = "RESEND_OTP" => RejectVerify(r)
         /\ request'[r].reply \in Tried /\ request[r].op = "verifyOtp" =>
               CompareOtp(r) \/ Fail(r)
         /\ request'[r].reply \in Judged /\ request[r].op = "verifyOtp" =>
               CompareOtp(r)
         /\ UNCHANGED <<now, createdIds>>
<1>1. request[r] \in HandlerStates
  BY DEF TypeOK
<1>2. CASE ResetField(r)
  BY <1>2, FinishAs DEF ResetField, InFlightAt, Replies, Tried, Judged
<1>3. CASE RejectNewOtp(r)
  BY <1>3, FinishAs
  DEF RejectNewOtp, GetNewOtpError, InFlightAt, Replies, Tried, Judged
<1>4. CASE SendOtpFails(r)
  BY <1>4, FinishAs DEF SendOtpFails, InFlightAt, Replies, Tried, Judged
<1>5. CASE StoreOtp(r)
  BY <1>5, FinishAs DEF StoreOtp, InFlightAt, Replies, Tried, Judged
<1>6. CASE RejectVerify(r)
  BY <1>6, FinishAs
  DEF RejectVerify, VerifyOtpError, InFlightAt, Replies, Tried, Judged
<1>7. CASE CompareOtp(r)
  BY <1>7, ComparedAs, CompareEffect
  DEF CompareOtp, InFlightAt, Replies, Tried, Judged
<1>8. CASE Fail(r)
  <2>1. Finish(r, "ERROR") /\ request[r].pc \in InFlightAt
    BY <1>8 DEF Fail, InFlight
  <2>. QED
    BY <1>8, <2>1, FinishAs DEF Fail, Replies, Tried, Judged
<1>. QED  BY <1>2, <1>3, <1>4, <1>5, <1>6, <1>7, <1>8 DEF Ends

(* What needs no serial client: a request that was not sent has done       *)
(* nothing, only finitely many were, and only a transaction that was       *)
(* created is read or written.                                             *)
Unanswered ==
    \A r \in Requests :
        /\ request[r].pc # "done" => request[r].reply = None
        /\ request[r].pc = "new" => request[r].op = "none"

StartedRequests == {r \in Requests : request[r].pc # "new"}

TransactionsCreated ==
    /\ \A t \in TransactionIds : verifications[t] # None => t \in createdIds
    /\ \A r \in Requests : InFlight(r) \/ request[r].reply = "CREATED" =>
          request[r].transactionId \in createdIds

StoredAt ==
    \A r \in Requests : request[r].reply = "CREATED" =>
        /\ request[r].pc = "done"
        /\ request[r].at \in Time
        /\ request[r].transactionId \in TransactionIds
        /\ request[r].fieldId \in FieldIds

Bookkeeping ==
    /\ Unanswered
    /\ IsFiniteSet(StartedRequests)
    /\ TransactionsCreated
    /\ StoredAt

LEMMA BookkeepingInit == Init => Bookkeeping
<1>. SUFFICES ASSUME Init
              PROVE  Bookkeeping
  OBVIOUS
<1>1. StartedRequests = {}
  BY DEF Init, StartedRequests, NewRequest
<1>2. IsFiniteSet(StartedRequests)
  BY <1>1, FS_EmptySet
<1>3. None # "CREATED"
  BY NoneAssumption DEF Replies
<1>. QED
  BY <1>2, <1>3
  DEF Init, Bookkeeping, Unanswered, TransactionsCreated, StoredAt,
      NewRequest, InFlight, InFlightAt

(* At most one request moves in a step.                                    *)
LEMMA OneMoves ==
  ASSUME TypeOK, HandlersOK, [Next]_vars
  PROVE  \/ request' = request
         \/ \E r \in Requests : \A s \in Requests \ {r} :
               request'[s] = request[s]
  BY StepKinds, StartsAs, AdvancesAs, EndsAs DEF SameTask

LEMMA StartedStep ==
  ASSUME IndInv, IsFiniteSet(StartedRequests), [Next]_vars
  PROVE  IsFiniteSet(StartedRequests')
<1>1. CASE request' = request
  BY <1>1 DEF StartedRequests
<1>2. ASSUME NEW r \in Requests,
             \A s \in Requests \ {r} : request'[s] = request[s]
      PROVE  IsFiniteSet(StartedRequests')
  <2>1. StartedRequests' \subseteq StartedRequests \cup {r}
    BY <1>2 DEF StartedRequests
  <2>2. IsFiniteSet(StartedRequests \cup {r})
    BY FS_AddElement
  <2>. QED  BY <2>1, <2>2, FS_Subset
<1>. QED  BY <1>1, <1>2, OneMoves DEF IndInv

LEMMA UnansweredStep ==
  ASSUME IndInv, Unanswered, [Next]_vars
  PROVE  Unanswered'
<1>. SUFFICES ASSUME NEW s \in Requests
              PROVE  /\ request'[s].pc # "done" => request'[s].reply = None
                     /\ request'[s].pc = "new" => request'[s].op = "none"
  BY DEF Unanswered
<1>1. CASE request'[s] = request[s]
  BY <1>1 DEF Unanswered
<1>2. CASE Start(s)
  BY <1>2, StartsAs DEF Unanswered, IndInv
<1>3. CASE Advances(s)
  BY <1>3, AdvancesAs DEF Unanswered, IndInv, InFlightAt
<1>4. CASE Ends(s)
  BY <1>4, EndsAs DEF Unanswered, IndInv, InFlightAt
<1>5. \/ request'[s] = request[s]
      \/ Start(s) \/ Advances(s) \/ Ends(s)
  BY StepKinds, StartsAs, AdvancesAs, EndsAs DEF SameTask, IndInv
<1>. QED  BY <1>1, <1>2, <1>3, <1>4, <1>5

(* Only CreateTransaction makes a document of no document.                 *)
LEMMA DocumentsStep ==
  ASSUME IndInv, [Next]_vars, NEW t \in TransactionIds,
         verifications'[t] # None
  PROVE  /\ createdIds \subseteq createdIds'
         /\ \/ verifications[t] # None
            \/ t \notin createdIds /\ t \in createdIds'
<1>1. ASSUME NEW t2, NEW f2, NEW field, UpdateField(t2, f2, field)
      PROVE  verifications[t] # None
  BY <1>1 DEF UpdateField, HasField, IndInv, TypeOK
<1>2. ASSUME NEW r \in Requests, Start(r) \/ Continue(r)
      PROVE  verifications[t] # None /\ createdIds' = createdIds
  <2>1. CASE Start(r)
    BY <2>1, StartsAs DEF IndInv
  <2>2. CASE ResetField(r) \/ StoreOtp(r) \/ CountRetry(r)
    BY <1>1, <2>2 DEF ResetField, StoreOtp, CountRetry
  <2>3. CASE \/ RejectNewOtp(r) \/ \E otp \in Otps : GenerateOtp(r, otp)
             \/ SignAnswer(r) \/ SendOtp(r) \/ SendOtpFails(r)
             \/ RejectVerify(r) \/ AcceptVerify(r) \/ CompareOtp(r)
    BY <2>3
    DEF RejectNewOtp, GenerateOtp, SignAnswer, SendOtp, SendOtpFails,
        RejectVerify, AcceptVerify, CompareOtp
  <2>. QED  BY <1>2, <2>1, <2>2, <2>3 DEF Continue
<1>3. CASE Environment
  BY <1>3
  DEF Environment, CreateTransaction, ExpireTransaction, Fail, Tick, IndInv,
      TypeOK
<1>4. CASE UNCHANGED vars
  BY <1>4 DEF vars
<1>. QED  BY <1>2, <1>3, <1>4 DEF Next

LEMMA CreatedGrows ==
  ASSUME IndInv, [Next]_vars
  PROVE  createdIds \subseteq createdIds'
<1>1. ASSUME NEW r \in Requests, Start(r) \/ Continue(r)
      PROVE  createdIds' = createdIds
  BY <1>1
  DEF Start, StartReset, StartGetNewOtp, StartVerifyOtp, GetTransaction,
      Continue, ResetField, RejectNewOtp, GenerateOtp, SignAnswer, SendOtp,
      SendOtpFails, StoreOtp, RejectVerify, AcceptVerify, CountRetry, CompareOtp
<1>2. CASE Environment
  BY <1>2
  DEF Environment, CreateTransaction, ExpireTransaction, Fail, Tick
<1>. QED  BY <1>1, <1>2 DEF Next, vars

LEMMA TransactionsStep ==
  ASSUME IndInv, Bookkeeping, [Next]_vars
  PROVE  TransactionsCreated'
<1>1. ASSUME NEW t \in TransactionIds, verifications'[t] # None
      PROVE  t \in createdIds'
  BY <1>1, DocumentsStep DEF Bookkeeping, TransactionsCreated
<1>2. ASSUME NEW s \in Requests, InFlight(s)' \/ request'[s].reply = "CREATED"
      PROVE  request'[s].transactionId \in createdIds'
  <2>1. CASE request'[s] = request[s]
    BY <1>2, <2>1, CreatedGrows
    DEF Bookkeeping, TransactionsCreated, InFlight
  <2>2. CASE Start(s)
    BY <1>2, <2>2, StartsAs
    DEF Bookkeeping, TransactionsCreated, InFlight, InFlightAt, IndInv
  <2>3. CASE Advances(s) \/ Ends(s)
    BY <2>3, AdvancesAs, EndsAs, CreatedGrows
    DEF Bookkeeping, TransactionsCreated, InFlight, SameTask, IndInv
  <2>4. \/ request'[s] = request[s]
        \/ Start(s) \/ Advances(s) \/ Ends(s)
    BY StepKinds, StartsAs, AdvancesAs, EndsAs DEF SameTask, IndInv
  <2>. QED  BY <2>1, <2>2, <2>3, <2>4
<1>. QED  BY <1>1, <1>2 DEF TransactionsCreated

LEMMA StoredAtStep ==
  ASSUME IndInv, Bookkeeping, [Next]_vars
  PROVE  StoredAt'
<1>. SUFFICES ASSUME NEW s \in Requests, request'[s].reply = "CREATED"
              PROVE  /\ request'[s].pc = "done"
                     /\ request'[s].at \in Time
                     /\ request'[s].transactionId \in TransactionIds
                     /\ request'[s].fieldId \in FieldIds
  BY DEF StoredAt
<1>1. CASE request'[s] = request[s]
  BY <1>1 DEF Bookkeeping, StoredAt
<1>2. CASE Start(s) \/ Advances(s)
  <2>1. request[s].pc # "done" /\ request[s].reply = "CREATED"
    BY <1>2, StartsAs, AdvancesAs DEF InFlightAt, IndInv
  <2>. QED  BY <2>1 DEF Bookkeeping, StoredAt
<1>3. CASE Ends(s)
  <2>1. StoreOtp(s) /\ SameTask(s) /\ request'[s].at = request[s].at
        /\ request'[s].pc = "done"
    BY <1>3, EndsAs DEF IndInv
  <2>2. request[s].pc = "storing"
    BY <2>1 DEF StoreOtp
  <2>. QED  BY <2>1, <2>2 DEF SameTask, IndInv, HandlersOK, HandlerOK
<1>4. \/ request'[s] = request[s]
      \/ Start(s) \/ Advances(s) \/ Ends(s)
  BY StepKinds, StartsAs, AdvancesAs, EndsAs DEF SameTask, IndInv
<1>. QED  BY <1>1, <1>2, <1>3, <1>4

LEMMA BookkeepingStep ==
  ASSUME IndInv, Bookkeeping, [Next]_vars
  PROVE  Bookkeeping'
  BY StartedStep, UnansweredStep, TransactionsStep, StoredAtStep DEF Bookkeeping

LEMMA MoveKinds ==
  ASSUME IndInv, [Next]_vars, NEW s \in Requests
  PROVE  request'[s] = request[s] \/ Start(s) \/ Advances(s) \/ Ends(s)
  BY StepKinds, StartsAs, AdvancesAs, EndsAs DEF SameTask, IndInv

(* Attempts(hash, replies), of any state of the requests.                  *)
SnapshotOf(task) == task.transaction.fields[task.fieldId]

Attempted(reqs, hash, replies) ==
    {r \in Requests : /\ reqs[r].op = "verifyOtp"
                      /\ reqs[r].reply \in replies
                      /\ SnapshotOf(reqs[r]) # None
                      /\ SnapshotOf(reqs[r]).hashedOtp = hash}

(* The snapshot that an answer to verifyOtp was given on came from one     *)
(* getNewOtp.                                                              *)
AttemptsKnown ==
    \A r \in Requests :
        \/ request[r].reply = "RESEND_OTP"
        \/ request[r].op = "verifyOtp" /\ request[r].reply \in Judged
        => /\ request[r].op = "verifyOtp"
           /\ SnapshotField(r).hashedOtp # None =>
                 FromOneOtp(request[r].transactionId, request[r].fieldId,
                            SnapshotField(r))

(* n counts the attempts at the OTP hashed to hash: every one that was     *)
(* judged, and perhaps some that ended in an error.                        *)
Counts(reqs, hash, n) ==
    /\ Cardinality(Attempted(reqs, hash, Judged)) <= n
    /\ n <= Cardinality(Attempted(reqs, hash, Tried))

(* The answer of a verifyOtp that tried the OTP hashed to hash.            *)
Tries(r, hash) ==
    /\ Ends(r)
    /\ request[r].op = "verifyOtp"
    /\ SnapshotField(r) # None
    /\ SnapshotField(r).hashedOtp = hash

LEMMA AttemptedStep ==
  ASSUME IndInv, Bookkeeping, [Next]_vars,
         NEW hash, NEW replies \in SUBSET Tried
  PROVE  \/ Attempted(request', hash, replies)
               = Attempted(request, hash, replies)
         \/ \E r \in Requests :
               /\ Tries(r, hash)
               /\ request'[r].reply \in replies
               /\ r \notin Attempted(request, hash, replies)
               /\ Attempted(request', hash, replies)
                     = Attempted(request, hash, replies) \cup {r}
<1>0. None \notin replies /\ "TRANSACTION_NOT_FOUND" \notin replies
  BY NoneAssumption DEF Replies, Tried
<1>1. ASSUME NEW s \in Requests, ~Ends(s)
      PROVE  s \in Attempted(request', hash, replies)
               <=> s \in Attempted(request, hash, replies)
  <2>1. CASE request'[s] = request[s]
    BY <2>1 DEF Attempted
  <2>2. CASE Start(s)
    BY <1>0, <2>2, StartsAs DEF Attempted, Bookkeeping, Unanswered, IndInv
  <2>3. CASE Advances(s)
    BY <1>0, <2>3, AdvancesAs
    DEF Attempted, Bookkeeping, Unanswered, IndInv, InFlightAt
  <2>. QED  BY <1>1, <2>1, <2>2, <2>3, MoveKinds
<1>2. ASSUME NEW r \in Requests, Ends(r)
      PROVE  /\ r \notin Attempted(request, hash, replies)
             /\ \A s \in Requests \ {r} :
                   s \in Attempted(request', hash, replies)
                     <=> s \in Attempted(request, hash, replies)
             /\ r \in Attempted(request', hash, replies) =>
                   Tries(r, hash) /\ request'[r].reply \in replies
  <2>1. SameTask(r) /\ request[r].pc # "done"
    BY <1>2, EndsAs DEF IndInv, InFlightAt
  <2>2. request[r].reply = None
    BY <2>1 DEF Bookkeeping, Unanswered
  <2>3. SnapshotOf(request'[r]) = SnapshotField(r)
    BY <2>1 DEF SameTask, SnapshotOf, SnapshotField
  <2>. QED
    BY <1>0, <1>2, <2>1, <2>2, <2>3 DEF Attempted, SameTask, Tries
<1>3. \A reqs : Attempted(reqs, hash, replies) \subseteq Requests
  BY DEF Attempted
<1>. QED  BY <1>1, <1>2, <1>3

LEMMA AttemptedFinite ==
  ASSUME Bookkeeping, NEW hash, NEW replies
  PROVE  /\ IsFiniteSet(Attempted(request, hash, replies))
         /\ Cardinality(Attempted(request, hash, replies)) \in Nat
<1>1. Attempted(request, hash, replies) \subseteq StartedRequests
  BY DEF Attempted, StartedRequests, Bookkeeping, Unanswered
<1>. QED  BY <1>1, FS_Subset, FS_CardinalityType DEF Bookkeeping

LEMMA AttemptedFiniteNext ==
  ASSUME IndInv, Bookkeeping, [Next]_vars, NEW hash, NEW replies
  PROVE  /\ IsFiniteSet(Attempted(request', hash, replies))
         /\ Cardinality(Attempted(request', hash, replies)) \in Nat
<1>1. Bookkeeping'
  BY BookkeepingStep
<1>2. Attempted(request', hash, replies) \subseteq StartedRequests'
  BY <1>1 DEF Attempted, StartedRequests, Bookkeeping, Unanswered
<1>. QED  BY <1>1, <1>2, FS_Subset, FS_CardinalityType DEF Bookkeeping

(* Attempts at an OTP are not forgotten.                                   *)
LEMMA AttemptsGrow ==
  ASSUME IndInv, Bookkeeping, [Next]_vars,
         NEW hash, NEW replies \in SUBSET Tried
  PROVE  Cardinality(Attempted(request, hash, replies))
           <= Cardinality(Attempted(request', hash, replies))
<1>1. CASE Attempted(request', hash, replies)
             = Attempted(request, hash, replies)
  BY <1>1, AttemptedFinite
<1>2. ASSUME NEW r, r \notin Attempted(request, hash, replies),
             Attempted(request', hash, replies)
               = Attempted(request, hash, replies) \cup {r}
      PROVE  Cardinality(Attempted(request, hash, replies))
               <= Cardinality(Attempted(request', hash, replies))
  BY <1>2, AttemptedFinite, FS_AddElement
<1>. QED  BY <1>1, <1>2, AttemptedStep

LEMMA AttemptsKnownStep ==
  ASSUME IndInv, Bookkeeping, AttemptsKnown, [Next]_vars
  PROVE  AttemptsKnown'
<1>. SUFFICES ASSUME NEW s \in Requests,
                     \/ request'[s].reply = "RESEND_OTP"
                     \/ /\ request'[s].op = "verifyOtp"
                        /\ request'[s].reply \in Judged
              PROVE  /\ request'[s].op = "verifyOtp"
                     /\ SnapshotField(s)'.hashedOtp # None =>
                           FromOneOtp(request[s].transactionId,
                                      request[s].fieldId, SnapshotField(s))'
  BY DEF AttemptsKnown
<1>0. None \notin Judged /\ None # "RESEND_OTP"
  BY NoneAssumption DEF Replies, Judged
<1>1. ASSUME request'[s].op = request[s].op,
             request'[s].transactionId = request[s].transactionId,
             request'[s].fieldId = request[s].fieldId,
             SnapshotField(s)' = SnapshotField(s),
             FromOneOtp(request[s].transactionId, request[s].fieldId,
                        SnapshotField(s))
      PROVE  FromOneOtp(request[s].transactionId, request[s].fieldId,
                        SnapshotField(s))'
  <2>1. PICK t, f, d : t = request[s].transactionId /\ f = request[s].fieldId
                       /\ d = SnapshotField(s)
    OBVIOUS
  <2>2. FromOneOtp(t, f, d)'
    BY <1>1, <2>1, FromOneOtpKept DEF IndInv
  <2>3. /\ t = request'[s].transactionId /\ f = request'[s].fieldId
        /\ d = SnapshotField(s)'
    BY <1>1, <2>1
  <2>. QED  BY <2>2, <2>3
<1>2. CASE request'[s] = request[s]
  BY <1>1, <1>2 DEF AttemptsKnown, SnapshotField
<1>3. CASE Start(s) \/ Advances(s)
  <2>1. request'[s].reply \in {None, "TRANSACTION_NOT_FOUND"}
    BY <1>3, StartsAs, AdvancesAs
    DEF Bookkeeping, Unanswered, IndInv, InFlightAt
  <2>. QED  BY <1>0, <2>1 DEF Judged
<1>4. CASE Ends(s)
  <2>1. SameTask(s) /\ InFlight(s) /\ request[s].fieldId \in FieldIds
    BY <1>4, EndsAs DEF IndInv, InFlight, InFlightAt, HandlersOK, HandlerOK
  <2>2. SnapshotField(s)' = SnapshotField(s)
    BY <2>1 DEF SameTask, SnapshotField
  <2>3. /\ SnapshotField(s) # None
        /\ request[s].op = "verifyOtp"
    <3>1. CASE CompareOtp(s)
      <4>1. request[s].pc = "comparing"
        BY <3>1 DEF CompareOtp
      <4>. QED  BY <4>1 DEF IndInv, HandlersOK, HandlerOK
    <3>2. CASE RejectVerify(s) /\ request'[s].reply = "RESEND_OTP"
      <4>1. VerifyOtpError(s) = "RESEND_OTP"
        BY <3>2, FinishAs DEF RejectVerify, IndInv
      <4>. QED  BY <3>2, <4>1 DEF VerifyOtpError, RejectVerify
    <3>. QED  BY <1>4, <2>1, <3>1, <3>2, EndsAs DEF IndInv, SameTask
  <2>4. FromOneOtp(request[s].transactionId, request[s].fieldId,
                   SnapshotField(s))
    BY <2>1, <2>3 DEF IndInv, SnapshotsCoherent, SnapshotField
  <2>. QED  BY <1>1, <2>1, <2>2, <2>3, <2>4 DEF SameTask
<1>. QED  BY <1>2, <1>3, <1>4, MoveKinds

(* An answer to another attempt changes no count of this one's.            *)
LEMMA CountsStep ==
  ASSUME IndInv, Bookkeeping, [Next]_vars, NEW hash, NEW n \in Nat,
         Counts(request, hash, n)
  PROVE  Counts(request', hash, n) \/ \E r \in Requests : Tries(r, hash)
<1>1. CASE /\ Attempted(request', hash, Judged)
                = Attempted(request, hash, Judged)
           /\ Attempted(request', hash, Tried)
                = Attempted(request, hash, Tried)
  BY <1>1 DEF Counts
<1>. QED  BY <1>1, AttemptedStep DEF Judged, Tried

(* The answer to an attempt that the field's count includes already, and   *)
(* to one that ends in an error without.                                   *)
LEMMA TriesCounted ==
  ASSUME IndInv, Bookkeeping, [Next]_vars, NEW hash, NEW n \in Nat,
         Counts(request, hash, n),
         NEW r \in Requests, Tries(r, hash), CompareOtp(r) \/ Fail(r)
  PROVE  /\ Counts(request', hash, n + 1)
         /\ Fail(r) => Counts(request', hash, n)
<1>1. \A s \in Requests : Ends(s) => s = r
  BY EndsAs DEF Tries, SameTask, IndInv, InFlightAt
<1>2. /\ SameTask(r)
      /\ request[r].pc \in InFlightAt
      /\ request'[r].reply \in Tried
      /\ Fail(r) => request'[r].reply = "ERROR"
  <2>1. Fail(r) => request'[r].reply = "ERROR"
    BY FinishAs DEF Fail, IndInv
  <2>. QED  BY <2>1, ComparedAs, EndsAs DEF Tries, IndInv, Tried, Judged
<1>. DEFINE J == Attempted(request, hash, Judged)
            T == Attempted(request, hash, Tried)
<1>3. /\ IsFiniteSet(J) /\ Cardinality(J) \in Nat
      /\ IsFiniteSet(T) /\ Cardinality(T) \in Nat
  BY AttemptedFinite
<1>4. r \in Attempted(request', hash, Tried) /\ r \notin T
  <2>1. request[r].reply = None /\ None \notin Tried
    BY <1>2, NoneAssumption
    DEF Bookkeeping, Unanswered, InFlightAt, Replies, Tried
  <2>2. SnapshotOf(request'[r]) = SnapshotField(r)
    BY <1>2 DEF SameTask, SnapshotOf, SnapshotField
  <2>. QED  BY <1>2, <2>1, <2>2 DEF Attempted, Tries, SameTask
<1>5. /\ Attempted(request', hash, Tried) = T \cup {r}
      /\ Cardinality(T \cup {r}) = Cardinality(T) + 1
  <2>1. Attempted(request', hash, Tried) = T \cup {r}
    BY <1>1, <1>4, AttemptedStep DEF Tries
  <2>. QED  BY <1>3, <1>4, <2>1, FS_AddElement
<1>6. /\ Cardinality(Attempted(request', hash, Judged)) <= Cardinality(J) + 1
      /\ Cardinality(Attempted(request', hash, Judged)) \in Nat
      /\ Fail(r) => Attempted(request', hash, Judged) = J
  <2>1. Judged \in SUBSET Tried
    BY DEF Judged, Tried
  <2>2. \/ Attempted(request', hash, Judged) = J
        \/ /\ Attempted(request', hash, Judged) = J \cup {r}
           /\ r \notin J
           /\ request'[r].reply \in Judged
    BY <1>1, <2>1, AttemptedStep DEF Tries
  <2>3. Fail(r) => request'[r].reply \notin Judged
    BY <1>2 DEF Judged
  <2>. HIDE DEF J
  <2>4. CASE Attempted(request', hash, Judged) = J
    BY <1>3, <2>4
  <2>5. CASE /\ Attempted(request', hash, Judged) = J \cup {r}
             /\ r \notin J
             /\ request'[r].reply \in Judged
    <3>1. Cardinality(J \cup {r}) = Cardinality(J) + 1
      BY <1>3, <2>5, FS_AddElement
    <3>. QED  BY <1>3, <2>3, <2>5, <3>1
  <2>. QED  BY <2>2, <2>4, <2>5
<1>. HIDE DEF J, T
<1>7. Cardinality(J) <= n /\ n <= Cardinality(T)
  BY DEF Counts, J, T
<1>. QED  BY <1>3, <1>5, <1>6, <1>7 DEF Counts

(***************************************************************************)
(* What verifyOtp writes back: the count in its snapshot plus one, which a *)
(* serial client finds to be the attempts at that OTP so far.              *)
(***************************************************************************)

Comparing(t, f) ==
    \E r \in Requests : /\ request[r].pc = "comparing"
                        /\ request[r].transactionId = t
                        /\ request[r].fieldId = f

(* Outside a comparison, a field counts the attempts at its OTP.           *)
StoredCount ==
    \A t \in TransactionIds, f \in FieldIds :
        LET field == verifications[t].fields[f]
        IN  HasField(t, f) /\ field.hashedOtp # None /\ ~Comparing(t, f) =>
                Counts(request, field.hashedOtp, field.hashRetries)

SnapshotCount ==
    \A r \in Requests :
        LET field == SnapshotField(r)
        IN  /\ InFlight(r)
            /\ request[r].op = "verifyOtp"
            /\ field # None
            /\ field.hashedOtp # None
            => Counts(request, field.hashedOtp, field.hashRetries)

(* The snapshot of an attempt is what the field holds, until the attempt   *)
(* is counted.                                                             *)
SnapshotFresh ==
    \A r \in Requests :
        LET t == request[r].transactionId
            f == request[r].fieldId
            stored == verifications[t].fields[f]
        IN  InFlight(r) /\ request[r].op = "verifyOtp" /\ HasField(t, f) =>
                /\ SnapshotField(r) # None
                /\ stored.hashedOtp = SnapshotField(r).hashedOtp
                /\ stored.hashRetries =
                      IF request[r].pc = "comparing"
                      THEN SnapshotField(r).hashRetries + 1
                      ELSE SnapshotField(r).hashRetries

(* An OTP that was compared was compared within the limit.                 *)
JudgedLimit ==
    \A r \in Requests :
        request[r].op = "verifyOtp" /\ request[r].reply \in Judged =>
            Cardinality(Attempted(request, SnapshotField(r).hashedOtp, Judged))
                <= NUM_OTP_RETRIES

(* One that was refused for its count was tried that often.                *)
RefusedAtLimit ==
    \A r \in Requests :
        LET field == SnapshotField(r)
        IN  /\ request[r].reply = "RESEND_OTP"
            /\ field.hashedOtp # None
            /\ ~isHashedOtpExpired(field.hashCreatedAt)
            => NUM_OTP_RETRIES
                   <= Cardinality(Attempted(request, field.hashedOtp, Tried))

CountInv ==
    /\ Bookkeeping
    /\ AttemptsKnown
    /\ StoredCount
    /\ SnapshotCount
    /\ SnapshotFresh
    /\ JudgedLimit
    /\ RefusedAtLimit

(* An OTP is in one field only.                                            *)
LEMMA HashInOneField ==
  ASSUME NEW t1, NEW f1, NEW field1, FromOneOtp(t1, f1, field1),
         NEW t2, NEW f2, NEW field2, FromOneOtp(t2, f2, field2),
         field1.hashedOtp = field2.hashedOtp, field1.hashedOtp # None
  PROVE  t1 = t2 /\ f1 = f2
<1>1. PICK r \in Requests : /\ request[r].transactionId = t1
                            /\ request[r].fieldId = f1
                            /\ field1.hashedOtp = Hash(request[r].otp, r)
  BY DEF FromOneOtp
<1>2. PICK s \in Requests : /\ request[s].transactionId = t2
                            /\ request[s].fieldId = f2
                            /\ field2.hashedOtp = Hash(request[s].otp, s)
  BY DEF FromOneOtp
<1>3. r = s
  <2>1. Hash(request[r].otp, r).salt = r /\ Hash(request[s].otp, s).salt = s
    BY DEF Hash
  <2>. QED  BY <1>1, <1>2, <2>1
<1>. QED  BY <1>1, <1>2, <1>3

(* The snapshot of a handler at work came from one getNewOtp; when it      *)
(* tries an OTP, that of the field it names.                               *)
LEMMA SnapshotKnown ==
  ASSUME IndInv, NEW r \in Requests, InFlight(r), SnapshotField(r) # None
  PROVE  /\ FromOneOtp(request[r].transactionId, request[r].fieldId,
                       SnapshotField(r))
         /\ SnapshotField(r) \in VerificationField
         /\ request[r].transactionId \in TransactionIds
         /\ request[r].fieldId \in FieldIds
<1>1. /\ request[r].transactionId \in TransactionIds
      /\ request[r].fieldId \in FieldIds
      /\ request[r].transaction \in Documents
  BY DEF IndInv, HandlersOK, HandlerOK, InFlight, InFlightAt
<1>. QED
  BY <1>1 DEF IndInv, SnapshotsCoherent, SnapshotField, Documents

LEMMA StoredKnown ==
  ASSUME IndInv, NEW t \in TransactionIds, NEW f \in FieldIds, HasField(t, f)
  PROVE  /\ verifications[t].fields[f] \in VerificationField
         /\ verifications[t].fields[f].hashRetries \in Nat
         /\ FromOneOtp(t, f, verifications[t].fields[f])
<1>1. verifications[t].fields[f] \in VerificationField
  BY DEF IndInv, TypeOK, HasField, Documents
<1>. QED
  BY <1>1, TimesAssumption DEF IndInv, StoredOtpCoherent, VerificationField

(* A comparison ends with an answer.                                       *)
LEMMA ComparingEnds ==
  ASSUME IndInv, [Next]_vars, NEW r \in Requests,
         request[r].pc = "comparing", request'[r].pc # "comparing"
  PROVE  (CompareOtp(r) \/ Fail(r)) /\ Ends(r)
<1>1. ~Start(r)
  BY StartsAs DEF IndInv
<1>2. ~Advances(r)
  BY GenerateEffect, SignEffect, SendEffect, AcceptEffect, CountEffect
  DEF Advances, IndInv
<1>3. Ends(r)
  BY <1>1, <1>2, MoveKinds
<1>4. request[r].op = "verifyOtp"
  BY DEF IndInv, HandlersOK, HandlerOK
<1>. QED
  BY <1>3, <1>4
  DEF Ends, ResetField, RejectNewOtp, SendOtpFails, StoreOtp, RejectVerify

LEMMA StoredCountStep ==
  ASSUME IndInv, CountInv, Serial, [Next]_vars
  PROVE  StoredCount'
<1>. SUFFICES ASSUME NEW t \in TransactionIds, NEW f \in FieldIds,
                     HasField(t, f)', ~Comparing(t, f)',
                     verifications'[t].fields[f].hashedOtp # None
              PROVE  Counts(request', verifications'[t].fields[f].hashedOtp,
                            verifications'[t].fields[f].hashRetries)
  BY DEF StoredCount
<1>. USE DEF CountInv
<1>1. ASSUME HasField(t, f),
             verifications'[t].fields[f] = verifications[t].fields[f]
      PROVE  Counts(request', verifications[t].fields[f].hashedOtp,
                    verifications[t].fields[f].hashRetries)
  <2>. DEFINE hash == verifications[t].fields[f].hashedOtp
              n == verifications[t].fields[f].hashRetries
  <2>0. n \in Nat /\ hash # None
    BY <1>1, StoredKnown
  <2>1. ASSUME NEW r \in Requests, request[r].pc = "comparing",
               request[r].transactionId = t, request[r].fieldId = f
        PROVE  Counts(request', hash, n)
    <3>1. /\ CompareOtp(r) \/ Fail(r)
          /\ Ends(r)
      <4>1. SameTask(r) \/ request'[r] = request[r]
        BY <2>1, MoveKinds, StartsAs, AdvancesAs, EndsAs DEF IndInv
      <4>2. request'[r].pc # "comparing"
        BY <2>1, <4>1 DEF Comparing, SameTask
      <4>. QED  BY <2>1, <4>2, ComparingEnds
    <3>2. /\ InFlight(r)
          /\ request[r].op = "verifyOtp"
          /\ SnapshotField(r) # None
          /\ SnapshotField(r).hashedOtp # None
          /\ SnapshotField(r).hashRetries \in Nat
      BY <2>1, TimesAssumption
      DEF IndInv, HandlersOK, HandlerOK, InFlight, InFlightAt,
          VerificationField
    <3>3. /\ hash = SnapshotField(r).hashedOtp
          /\ n = SnapshotField(r).hashRetries + 1
      BY <1>1, <2>1, <3>2 DEF SnapshotFresh
    <3>4. Counts(request, hash, SnapshotField(r).hashRetries)
      BY <3>2, <3>3 DEF SnapshotCount
    <3>. HIDE DEF hash, n
    <3>5. Tries(r, hash)
      BY <3>1, <3>2, <3>3 DEF Tries
    <3>. QED  BY <3>1, <3>2, <3>3, <3>4, <3>5, TriesCounted
  <2>2. ASSUME ~Comparing(t, f)
        PROVE  Counts(request', hash, n)
    <3>1. Counts(request, hash, n)
      BY <1>1, <2>0, <2>2 DEF StoredCount
    <3>2. ASSUME NEW r \in Requests, Tries(r, hash)
          PROVE  Counts(request', hash, n)
      <4>1. /\ InFlight(r)
            /\ SnapshotField(r) # None
            /\ SnapshotField(r).hashedOtp = hash
        BY <3>2, EndsAs DEF Tries, InFlight, IndInv
      <4>2. request[r].transactionId = t /\ request[r].fieldId = f
        BY <1>1, <2>0, <4>1, SnapshotKnown, StoredKnown, HashInOneField
      <4>3. ~CompareOtp(r)
        BY <2>2, <4>2 DEF CompareOtp, Comparing
      <4>4. Attempted(request', hash, Judged) = Attempted(request, hash, Judged)
        <5>1. ASSUME NEW q \in Requests, Tries(q, hash)
              PROVE  request'[q].reply \notin Judged
          <6>1. q = r
            BY <3>2, <5>1, EndsAs DEF Tries, SameTask, IndInv, InFlightAt
          <6>. QED  BY <4>3, <5>1, <6>1, EndsAs DEF Tries, IndInv
        <5>. QED  BY <5>1, AttemptedStep DEF Judged, Tried
      <4>5. Cardinality(Attempted(request, hash, Tried))
              <= Cardinality(Attempted(request', hash, Tried))
        BY AttemptsGrow
      <4>. HIDE DEF hash, n
      <4>6. /\ Cardinality(Attempted(request, hash, Tried)) \in Nat
            /\ Cardinality(Attempted(request', hash, Tried)) \in Nat
        BY AttemptedFinite, AttemptedFiniteNext
      <4>. QED  BY <2>0, <3>1, <4>4, <4>5, <4>6 DEF Counts
    <3>. HIDE DEF hash, n
    <3>. QED  BY <2>0, <3>1, <3>2, CountsStep
  <2>. QED  BY <2>1, <2>2 DEF Comparing
<1>2. ASSUME NEW r \in Requests, StoresInto(r, t, f)
      PROVE  Counts(request', Hash(request[r].otp, r), 0)
  <2>. DEFINE hash == Hash(request[r].otp, r)
  <2>0. hash # None
    BY <1>2 DEF StoresInto
  <2>1. request[r].pc = "storing" /\ Ends(r) /\ request[r].op = "getNewOtp"
    BY <1>2 DEF StoresInto, StoreOtp, Ends, IndInv, HandlersOK, HandlerOK
  <2>2. Attempted(request, hash, Judged) = {}
    <3>1. ASSUME NEW s \in Attempted(request, hash, Judged)
          PROVE  FALSE
      <4>1. /\ s \in Requests
            /\ SnapshotField(s).hashedOtp = hash
            /\ request[s].op = "verifyOtp"
            /\ request[s].reply \in Judged
        BY DEF Attempted, SnapshotOf, SnapshotField
      <4>2. PICK q \in Requests : /\ request[q].pc = "done"
                                  /\ hash = Hash(request[q].otp, q)
        BY <2>0, <4>1 DEF AttemptsKnown, FromOneOtp
      <4>3. hash.salt = r /\ Hash(request[q].otp, q).salt = q
        BY DEF Hash
      <4>. QED  BY <2>1, <4>2, <4>3
    <3>. QED  BY <3>1
  <2>3. Attempted(request', hash, Judged) = {}
    <3>1. ASSUME NEW q \in Requests, Tries(q, hash)
          PROVE  FALSE
      BY <2>1, <3>1, EndsAs DEF Tries, SameTask, IndInv, InFlightAt
    <3>. QED  BY <2>2, <3>1, AttemptedStep DEF Judged, Tried
  <2>4. Cardinality(Attempted(request', hash, Tried)) \in Nat
    BY AttemptedFiniteNext
  <2>. HIDE DEF hash
  <2>. QED  BY <2>3, <2>4, FS_EmptySet DEF Counts, hash
<1>3. ASSUME NEW r \in Requests, CountsIn(r, t, f)
      PROVE  FALSE
  <2>1. request'[r].pc = "comparing" /\ SameTask(r)
    BY <1>3, CountEffect DEF CountsIn, IndInv
  <2>. QED  BY <1>3, <2>1 DEF Comparing, CountsIn, SameTask
<1>4. ~NoOtp(verifications'[t].fields[f])
  BY DEF NoOtp
<1>5. CASE /\ HasField(t, f)
           /\ verifications'[t].fields[f] = verifications[t].fields[f]
  BY <1>1, <1>5
<1>6. CASE \E r \in Requests : StoresInto(r, t, f)
  BY <1>2, <1>6 DEF StoresInto
<1>. QED  BY <1>3, <1>4, <1>5, <1>6, FieldWritten DEF IndInv

(* A request the step leaves at work is the only one, if another starts.   *)
LEMMA NoTriesBeside ==
  ASSUME IndInv, Serial, Serial', [Next]_vars,
         NEW r \in Requests, InFlight(r)', NEW q \in Requests, Ends(q)
  PROVE  FALSE
<1>1. /\ InFlight(q)
      /\ request'[q].pc = "done"
      /\ \A s \in Requests \ {q} : request'[s] = request[s]
  BY EndsAs DEF IndInv, InFlight, SameTask
<1>2. r # q
  BY <1>1 DEF InFlight, InFlightAt
<1>3. InFlight(r)
  BY <1>1, <1>2 DEF InFlight
<1>. QED  BY <1>1, <1>2, <1>3 DEF Serial

(* What a handler at work after a step did in it.                          *)
LEMMA AtWork ==
  ASSUME IndInv, [Next]_vars, NEW r \in Requests, InFlight(r)'
  PROVE  \/ /\ InFlight(r)
            /\ request'[r].op = request[r].op
            /\ request'[r].transactionId = request[r].transactionId
            /\ request'[r].fieldId = request[r].fieldId
            /\ SnapshotField(r)' = SnapshotField(r)
            /\ request'[r] = request[r] \/ Advances(r)
         \/ Start(r)
<1>1. CASE request'[r] = request[r]
  BY <1>1 DEF InFlight, SnapshotField
<1>2. CASE Advances(r)
  BY <1>2, AdvancesAs DEF InFlight, SameTask, SnapshotField, IndInv
<1>3. ~Ends(r)
  BY EndsAs DEF InFlight, InFlightAt, IndInv
<1>. QED  BY <1>1, <1>2, <1>3, MoveKinds

LEMMA SnapshotCountStep ==
  ASSUME IndInv, CountInv, Serial, Serial', [Next]_vars
  PROVE  SnapshotCount'
<1>. SUFFICES ASSUME NEW r \in Requests, InFlight(r)',
                     request'[r].op = "verifyOtp",
                     SnapshotField(r)' # None,
                     SnapshotField(r)'.hashedOtp # None
              PROVE  Counts(request', SnapshotField(r)'.hashedOtp,
                            SnapshotField(r)'.hashRetries)
  BY DEF SnapshotCount
<1>. USE DEF CountInv
<1>1. ASSUME NEW hash, NEW n \in Nat, Counts(request, hash, n)
      PROVE  Counts(request', hash, n)
  BY <1>1, CountsStep, NoTriesBeside DEF Tries
<1>2. CASE /\ InFlight(r)
           /\ request'[r].op = request[r].op
           /\ SnapshotField(r)' = SnapshotField(r)
  <2>1. SnapshotField(r).hashRetries \in Nat
    BY <1>2, SnapshotKnown, TimesAssumption DEF VerificationField
  <2>2. Counts(request, SnapshotField(r).hashedOtp, SnapshotField(r).hashRetries)
    BY <1>2 DEF SnapshotCount
  <2>. QED  BY <1>1, <1>2, <2>1, <2>2
<1>3. CASE Start(r)
  <2>. DEFINE t == request'[r].transactionId
              f == request'[r].fieldId
  <2>1. /\ t \in TransactionIds
        /\ f \in FieldIds
        /\ verifications[t] # None
        /\ request'[r].transaction = verifications[t]
        /\ request[r].pc = "new"
        /\ \A s \in Requests \ {r} : request'[s] = request[s]
    BY <1>3, StartsAs DEF IndInv, InFlight, InFlightAt
  <2>2. SnapshotField(r)' = verifications[t].fields[f]
    BY <2>1 DEF SnapshotField
  <2>3. HasField(t, f)
    BY <2>1, <2>2 DEF HasField
  <2>4. ~Comparing(t, f)
    <3>1. ASSUME NEW q \in Requests, request[q].pc = "comparing"
          PROVE  FALSE
      <4>1. q # r /\ InFlight(q)'
        BY <2>1, <3>1 DEF InFlight, InFlightAt
      <4>. QED  BY <4>1 DEF Serial
    <3>. QED  BY <3>1 DEF Comparing
  <2>5. verifications[t].fields[f].hashRetries \in Nat
    BY <2>1, <2>3, StoredKnown
  <2>6. Counts(request, verifications[t].fields[f].hashedOtp,
               verifications[t].fields[f].hashRetries)
    BY <2>1, <2>2, <2>3, <2>4 DEF StoredCount
  <2>. QED  BY <1>1, <2>2, <2>5, <2>6
<1>. QED  BY <1>2, <1>3, AtWork

LEMMA SnapshotFreshStep ==
  ASSUME IndInv, CountInv, Serial, Serial', [Next]_vars
  PROVE  SnapshotFresh'
<1>. USE DEF CountInv
<1>. SUFFICES ASSUME NEW r \in Requests, InFlight(r)',
                     request'[r].op = "verifyOtp",
                     HasField(request[r].transactionId, request[r].fieldId)'
              PROVE  LET t == request'[r].transactionId
                         f == request'[r].fieldId
                         stored == verifications'[t].fields[f]
                     IN  /\ SnapshotField(r)' # None
                         /\ stored.hashedOtp = SnapshotField(r)'.hashedOtp
                         /\ stored.hashRetries =
                               IF request'[r].pc = "comparing"
                               THEN SnapshotField(r)'.hashRetries + 1
                               ELSE SnapshotField(r)'.hashRetries
  BY DEF SnapshotFresh
<1>1. CASE Start(r)
  <2>1. /\ request'[r].pc = "fetched"
        /\ verifications' = verifications
        /\ request'[r].transaction = verifications[request'[r].transactionId]
    BY <1>1, StartsAs DEF IndInv, InFlight, InFlightAt
  <2>. QED  BY <2>1 DEF SnapshotField, HasField
<1>2. ASSUME InFlight(r),
             request'[r].op = request[r].op,
             request'[r].transactionId = request[r].transactionId,
             request'[r].fieldId = request[r].fieldId,
             SnapshotField(r)' = SnapshotField(r),
             request'[r] = request[r] \/ Advances(r)
      PROVE  LET t == request'[r].transactionId
                 f == request'[r].fieldId
                 stored == verifications'[t].fields[f]
             IN  /\ SnapshotField(r)' # None
                 /\ stored.hashedOtp = SnapshotField(r)'.hashedOtp
                 /\ stored.hashRetries =
                       IF request'[r].pc = "comparing"
                       THEN SnapshotField(r)'.hashRetries + 1
                       ELSE SnapshotField(r)'.hashRetries
  <2>. PICK t \in TransactionIds, f \in FieldIds :
         t = request[r].transactionId /\ f = request[r].fieldId
    BY <1>2 DEF IndInv, HandlersOK, HandlerOK, InFlight, InFlightAt
  <2>1. t \in createdIds
    BY <1>2 DEF Bookkeeping, TransactionsCreated
  <2>2. HasField(t, f)'
    BY <1>2 DEF HasField
  <2>3. \A q \in Requests : InFlight(q) => q = r
    BY <1>2 DEF Serial
  <2>4. HasField(t, f) /\ SameOtp(verifications[t].fields[f],
                                  verifications'[t].fields[f])
        /\ \/ verifications'[t].fields[f] = verifications[t].fields[f]
           \/ CountsIn(r, t, f)
    <3>1. ASSUME NEW q \in Requests, ResetField(q) \/ StoreOtp(q)
          PROVE  FALSE
      <4>1. Ends(q)
        BY <3>1 DEF Ends
      <4>. QED  BY <4>1, NoTriesBeside
    <3>2. ASSUME NEW q \in Requests, CountsIn(q, t, f)
          PROVE  q = r
      BY <2>3, <3>2, CountEffect DEF CountsIn, InFlight, InFlightAt, IndInv
    <3>. QED
      BY <2>1, <2>2, <3>1, <3>2, FieldWritten DEF StoresInto, IndInv
  <2>5. /\ SnapshotField(r) # None
        /\ verifications[t].fields[f].hashedOtp = SnapshotField(r).hashedOtp
        /\ verifications[t].fields[f].hashRetries =
              IF request[r].pc = "comparing"
              THEN SnapshotField(r).hashRetries + 1
              ELSE SnapshotField(r).hashRetries
    BY <1>2, <2>4 DEF SnapshotFresh
  <2>6. CASE CountsIn(r, t, f)
    <3>1. request'[r].pc = "comparing"
      BY <2>6, CountEffect DEF CountsIn, IndInv
    <3>. QED  BY <1>2, <2>4, <2>5, <2>6, <3>1 DEF CountsIn, SameOtp
  <2>7. CASE /\ verifications'[t].fields[f] = verifications[t].fields[f]
             /\ CountRetry(r)
    <3>1. verifications'[t].fields[f].hashRetries =
             SnapshotField(r).hashRetries + 1
      <4>1. PICK v, x : /\ v = verifications[t]
                        /\ x = [v.fields[f] EXCEPT !.hashRetries =
                                   SnapshotField(r).hashRetries + 1]
        OBVIOUS
      <4>2. verifications'[t] = WithField(v, f, x)
        BY <2>1, <2>4, <2>7, <4>1 DEF CountRetry, UpdateField, IndInv, TypeOK
      <4>3. v \in Documents
        BY <2>1, <2>4, <4>1 DEF HasField, IndInv, TypeOK
      <4>4. v.fields[f] \in VerificationField
        BY <2>1, <2>4, <4>1, StoredKnown
      <4>5. x.hashRetries = SnapshotField(r).hashRetries + 1
        BY <4>1, <4>4 DEF VerificationField
      <4>6. WithField(v, f, x).fields[f] = x
        BY <4>3 DEF WithField, Documents
      <4>. QED  BY <4>2, <4>5, <4>6
    <3>2. request'[r].pc = "comparing"
      BY <2>7, CountEffect DEF IndInv
    <3>. QED  BY <1>2, <2>4, <2>5, <3>1, <3>2 DEF SameOtp
  <2>8. CASE /\ verifications'[t].fields[f] = verifications[t].fields[f]
             /\ ~CountRetry(r)
    <3>1. request'[r].pc = "comparing" <=> request[r].pc = "comparing"
      <4>1. CASE request'[r] = request[r]
        BY <4>1
      <4>2. CASE Advances(r)
        BY <2>8, <4>2, GenerateEffect, SignEffect, SendEffect, AcceptEffect
        DEF Advances, IndInv
      <4>. QED  BY <1>2, <4>1, <4>2
    <3>. QED  BY <1>2, <2>5, <2>8, <3>1
  <2>. QED  BY <2>4, <2>6, <2>7, <2>8
<1>. QED  BY <1>1, <1>2, AtWork

LEMMA JudgedLimitStep ==
  ASSUME IndInv, CountInv, [Next]_vars
  PROVE  JudgedLimit'
<1>. USE DEF CountInv
<1>. SUFFICES ASSUME NEW s \in Requests, request'[s].op = "verifyOtp",
                     request'[s].reply \in Judged
              PROVE  Cardinality(Attempted(request',
                           SnapshotField(s)'.hashedOtp, Judged))
                       <= NUM_OTP_RETRIES
  BY DEF JudgedLimit
<1>0. None \notin Judged /\ "TRANSACTION_NOT_FOUND" \notin Judged
  BY NoneAssumption DEF Replies, Judged
<1>1. ASSUME NEW hash, NEW r \in Requests, Tries(r, hash), CompareOtp(r)
      PROVE  Cardinality(Attempted(request', hash, Judged)) <= NUM_OTP_RETRIES
  <2>1. /\ InFlight(r)
        /\ SnapshotField(r) # None
        /\ SnapshotField(r).hashedOtp # None
        /\ SnapshotField(r).hashedOtp = hash
        /\ request[r].op = "verifyOtp"
        /\ SnapshotField(r).hashRetries \in Nat
        /\ SnapshotField(r).hashRetries + 1 <= NUM_OTP_RETRIES
    BY <1>1, TimesAssumption
    DEF CompareOtp, Tries, InFlight, InFlightAt, IndInv, HandlersOK, HandlerOK,
        VerificationField
  <2>2. Counts(request, hash, SnapshotField(r).hashRetries)
    BY <2>1 DEF SnapshotCount
  <2>3. Counts(request', hash, SnapshotField(r).hashRetries + 1)
    BY <1>1, <2>1, <2>2, TriesCounted
  <2>. QED
    BY <2>1, <2>3, AttemptedFiniteNext, TimesAssumption DEF Counts
<1>2. ASSUME NEW hash,
             Cardinality(Attempted(request, hash, Judged)) <= NUM_OTP_RETRIES
      PROVE  Cardinality(Attempted(request', hash, Judged)) <= NUM_OTP_RETRIES
  <2>1. ASSUME NEW r \in Requests, Tries(r, hash), request'[r].reply \in Judged
        PROVE  Cardinality(Attempted(request', hash, Judged))
                 <= NUM_OTP_RETRIES
    BY <1>1, <2>1, EndsAs DEF Tries, IndInv
  <2>. QED  BY <1>2, <2>1, AttemptedStep DEF Judged, Tried
<1>3. CASE request'[s] = request[s]
  BY <1>2, <1>3 DEF JudgedLimit, SnapshotField
<1>4. ~Start(s) /\ ~Advances(s)
  BY <1>0, StartsAs, AdvancesAs DEF Bookkeeping, Unanswered, IndInv, InFlightAt
<1>5. CASE Ends(s)
  <2>1. /\ SameTask(s)
        /\ CompareOtp(s)
        /\ request[s].op = "verifyOtp"
    BY <1>5, EndsAs DEF IndInv, SameTask
  <2>2. SnapshotField(s)' = SnapshotField(s) /\ SnapshotField(s) # None
    BY <2>1
    DEF SameTask, SnapshotField, CompareOtp, IndInv, HandlersOK, HandlerOK
  <2>3. Tries(s, SnapshotField(s).hashedOtp)
    BY <1>5, <2>1, <2>2 DEF Tries
  <2>. QED  BY <1>1, <2>1, <2>2, <2>3
<1>. QED  BY <1>3, <1>4, <1>5, MoveKinds

(* The time an OTP was stored with is a time.                              *)
LEMMA OtpHasTime ==
  ASSUME IndInv, NEW t, NEW f, NEW field, FromOneOtp(t, f, field),
         field.hashedOtp # None
  PROVE  field.hashCreatedAt \in Nat
<1>1. PICK q \in Requests : /\ request[q].signedAt # None
                            /\ field.hashCreatedAt = request[q].at
  BY DEF FromOneOtp
<1>2. request[q].signedAt \in Time
  BY <1>1 DEF IndInv, TypeOK, HandlerStates
<1>. QED  BY <1>1, <1>2 DEF IndInv, ClocksInPast, Time

LEMMA RefusedAtLimitStep ==
  ASSUME IndInv, CountInv, [Next]_vars
  PROVE  RefusedAtLimit'
<1>. USE DEF CountInv
<1>. SUFFICES ASSUME NEW s \in Requests, request'[s].reply = "RESEND_OTP",
                     SnapshotField(s)'.hashedOtp # None,
                     ~isHashedOtpExpired(SnapshotField(s).hashCreatedAt)'
              PROVE  NUM_OTP_RETRIES <=
                       Cardinality(Attempted(request',
                                       SnapshotField(s)'.hashedOtp, Tried))
  BY DEF RefusedAtLimit
<1>0. None # "RESEND_OTP"
  BY NoneAssumption DEF Replies
<1>1. now \in Nat /\ now' \in Nat /\ now <= now'
  BY Frame DEF IndInv, TypeOK, Time
<1>2. ASSUME NEW hash,
             NUM_OTP_RETRIES <= Cardinality(Attempted(request, hash, Tried))
      PROVE  NUM_OTP_RETRIES <= Cardinality(Attempted(request', hash, Tried))
  BY <1>2, AttemptsGrow, AttemptedFinite, AttemptedFiniteNext, TimesAssumption
  DEF Tried
<1>3. CASE request'[s] = request[s]
  <2>1. SnapshotField(s)' = SnapshotField(s)
    BY <1>3 DEF SnapshotField
  <2>2. FromOneOtp(request[s].transactionId, request[s].fieldId,
                   SnapshotField(s))
    BY <1>3, <2>1 DEF AttemptsKnown
  <2>3. SnapshotField(s).hashCreatedAt \in Nat
    BY <2>1, <2>2, OtpHasTime
  <2>4. ~isHashedOtpExpired(SnapshotField(s).hashCreatedAt)
    BY <1>1, <2>1, <2>3, TimesAssumption DEF isHashedOtpExpired
  <2>5. NUM_OTP_RETRIES <=
          Cardinality(Attempted(request, SnapshotField(s).hashedOtp, Tried))
    BY <1>3, <2>1, <2>4 DEF RefusedAtLimit
  <2>. QED  BY <1>2, <2>1, <2>5
<1>4. ~Start(s) /\ ~Advances(s)
  BY <1>0, StartsAs, AdvancesAs DEF Bookkeeping, Unanswered, IndInv, InFlightAt
<1>5. CASE Ends(s)
  <2>1. /\ SameTask(s)
        /\ RejectVerify(s)
        /\ InFlight(s)
        /\ now' = now
    BY <1>5, EndsAs DEF IndInv, InFlight
  <2>2. VerifyOtpError(s) = "RESEND_OTP"
    BY <2>1, FinishAs DEF RejectVerify, IndInv
  <2>3. /\ SnapshotField(s) # None
        /\ ~CanVerify(SnapshotField(s))
        /\ request[s].op = "verifyOtp"
    BY <2>1, <2>2, <1>0 DEF VerifyOtpError, RejectVerify
  <2>4. SnapshotField(s)' = SnapshotField(s)
    BY <2>1 DEF SameTask, SnapshotField
  <2>5. /\ SnapshotField(s) \in VerificationField
        /\ SnapshotField(s).hashCreatedAt \in Nat
    BY <2>1, <2>3, <2>4, SnapshotKnown, OtpHasTime
  <2>6. ~isHashedOtpExpired(SnapshotField(s).hashCreatedAt)
    BY <2>1, <2>4 DEF isHashedOtpExpired
  <2>7. /\ SnapshotField(s).hashRetries \in Nat
        /\ NUM_OTP_RETRIES <= SnapshotField(s).hashRetries
    <3>1. SnapshotField(s).hashCreatedAt # None
      BY <2>5, NoneAssumption DEF Time
    <3>2. SnapshotField(s).hashRetries \in Nat
      BY <2>5, TimesAssumption DEF VerificationField
    <3>. QED
      BY <2>3, <2>4, <2>6, <3>1, <3>2, TimesAssumption DEF CanVerify
  <2>8. Counts(request, SnapshotField(s).hashedOtp,
               SnapshotField(s).hashRetries)
    BY <2>1, <2>3, <2>4 DEF SnapshotCount
  <2>. QED
    BY <1>2, <2>4, <2>7, <2>8, AttemptedFinite, TimesAssumption DEF Counts
<1>. QED  BY <1>3, <1>4, <1>5, MoveKinds

LEMMA CountInit == Init => CountInv
<1>. SUFFICES ASSUME Init
              PROVE  CountInv
  OBVIOUS
<1>1. \A r \in Requests : request[r] = NewRequest
  BY DEF Init
<1>2. None \notin Judged /\ None # "RESEND_OTP"
  BY NoneAssumption DEF Judged, Replies
<1>3. \A t \in TransactionIds, f \in FieldIds : ~HasField(t, f)
  BY DEF Init, HasField
<1>. QED
  BY <1>1, <1>2, <1>3, BookkeepingInit
  DEF CountInv, AttemptsKnown, StoredCount, SnapshotCount, SnapshotFresh,
      JudgedLimit, RefusedAtLimit, NewRequest, InFlight, InFlightAt

LEMMA CountStep ==
  ASSUME IndInv, CountInv, Serial, Serial', [Next]_vars
  PROVE  CountInv'
  BY BookkeepingStep, AttemptsKnownStep, StoredCountStep, SnapshotCountStep,
     SnapshotFreshStep, JudgedLimitStep, RefusedAtLimitStep
  DEF CountInv

(***************************************************************************)
(* The time between the OTPs of a serial client that resets nothing: a     *)
(* field holds the time of the last OTP stored in it, and a getNewOtp at   *)
(* work has seen that time and waits for no other.                         *)
(***************************************************************************)

NoResets == \A r \in Requests : request[r].op # "reset"

SameField(r, s) ==
    /\ request[r].transactionId = request[s].transactionId
    /\ request[r].fieldId = request[s].fieldId

Created(r) == request[r].reply = "CREATED"

LastStored ==
    \A s \in Requests :
        LET t == request[s].transactionId
            f == request[s].fieldId
        IN  Created(s) /\ HasField(t, f) =>
                /\ verifications[t].fields[f].hashCreatedAt \in Time
                /\ request[s].at <= verifications[t].fields[f].hashCreatedAt

LastSeen ==
    \A r, s \in Requests :
        /\ InFlight(r)
        /\ request[r].op = "getNewOtp"
        /\ Created(s)
        /\ SameField(r, s)
        => /\ request[r].pc = "fetched" /\ SnapshotField(r) # None =>
                /\ SnapshotField(r).hashCreatedAt \in Time
                /\ request[s].at <= SnapshotField(r).hashCreatedAt
           /\ request[r].pc # "fetched" =>
                request[r].at >= request[s].at + WAIT_FOR_OTP_SECONDS

SpacedInv == NoResets => LastStored /\ LastSeen /\ StoredOtpsSpaced

LEMMA NoResetsBefore ==
  ASSUME IndInv, Bookkeeping, [Next]_vars, NoResets'
  PROVE  NoResets
<1>1. ASSUME NEW r \in Requests, request[r].op = "reset"
      PROVE  FALSE
  <2>1. request'[r].op = request[r].op
    BY <1>1, MoveKinds, StartsAs, AdvancesAs, EndsAs
    DEF SameTask, IndInv, Bookkeeping, Unanswered
  <2>. QED  BY <1>1, <2>1 DEF NoResets
<1>. QED  BY <1>1 DEF NoResets

(* Who is answered CREATED was before, or stores its OTP now.              *)
LEMMA CreatedBefore ==
  ASSUME IndInv, Bookkeeping, [Next]_vars, NEW s \in Requests, Created(s)'
  PROVE  \/ Created(s) /\ request'[s] = request[s]
         \/ StoreOtp(s) /\ Ends(s)
<1>0. None # "CREATED"
  BY NoneAssumption DEF Replies
<1>1. ~Start(s) /\ ~Advances(s)
  BY <1>0, StartsAs, AdvancesAs
  DEF Bookkeeping, Unanswered, IndInv, InFlightAt, Created
<1>2. Ends(s) => StoreOtp(s)
  BY EndsAs DEF Created, IndInv
<1>. QED  BY <1>1, <1>2, MoveKinds DEF Created

LEMMA LastStoredStep ==
  ASSUME IndInv, Bookkeeping, NoResets', LastStored, LastSeen, [Next]_vars
  PROVE  LastStored'
<1>. SUFFICES ASSUME NEW s \in Requests, NEW t, NEW f,
                     t = request'[s].transactionId,
                     f = request'[s].fieldId,
                     Created(s)', HasField(t, f)'
              PROVE  /\ verifications'[t].fields[f].hashCreatedAt \in Time
                     /\ request'[s].at <=
                           verifications'[t].fields[f].hashCreatedAt
  BY DEF LastStored, HasField
<1>1. /\ request'[s].at = request[s].at
      /\ t = request[s].transactionId
      /\ f = request[s].fieldId
      /\ t \in TransactionIds
      /\ f \in FieldIds
      /\ request[s].at \in Time
      /\ t \in createdIds
      /\ Created(s) \/ (StoreOtp(s) /\ InFlight(s))
  <2>1. CASE Created(s) /\ request'[s] = request[s]
    <3>1. request[s].reply = "CREATED"
      BY <2>1 DEF Created
    <3>2. request[s].transactionId \in createdIds
      BY <3>1 DEF Bookkeeping, TransactionsCreated
    <3>3. /\ request[s].at \in Time
          /\ request[s].transactionId \in TransactionIds
          /\ request[s].fieldId \in FieldIds
      BY <3>1 DEF Bookkeeping, StoredAt
    <3>. QED  BY <2>1, <3>2, <3>3
  <2>2. CASE StoreOtp(s) /\ Ends(s)
    BY <2>2, EndsAs
    DEF Bookkeeping, TransactionsCreated, IndInv, HandlersOK, HandlerOK,
        StoreOtp, InFlight, InFlightAt, SameTask
  <2>. QED  BY <2>1, <2>2, CreatedBefore
<1>2. CASE \E q \in Requests : StoresInto(q, t, f)
  <2>1. PICK q \in Requests : StoresInto(q, t, f)
    BY <1>2
  <2>2. /\ verifications'[t].fields[f].hashCreatedAt = request[q].at
        /\ request[q].pc = "storing"
        /\ request[q].op = "getNewOtp"
        /\ request[q].at \in Time
        /\ InFlight(q)
    BY <2>1 DEF StoresInto, StoreOtp, IndInv, HandlersOK, HandlerOK, InFlight,
                InFlightAt
  <2>3. ASSUME q # s
        PROVE  request[s].at <= request[q].at
    <3>1. Created(s)
      <4>1. Ends(q) /\ (StoreOtp(s) => Ends(s))
        BY <2>1 DEF StoresInto, Ends
      <4>2. ~StoreOtp(s)
        BY <2>3, <4>1, EndsAs DEF IndInv, SameTask, InFlightAt
      <4>. QED  BY <1>1, <4>2
    <3>2. SameField(q, s)
      BY <1>1, <2>1 DEF SameField, StoresInto
    <3>3. request[q].at >= request[s].at + WAIT_FOR_OTP_SECONDS
      BY <2>2, <3>1, <3>2 DEF LastSeen
    <3>. QED  BY <1>1, <2>2, <3>3, TimesAssumption DEF Time
  <2>. QED  BY <1>1, <2>2, <2>3 DEF Time
<1>3. CASE /\ HasField(t, f)
           /\ SameOtp(verifications[t].fields[f], verifications'[t].fields[f])
           /\ ~\E q \in Requests : StoresInto(q, t, f)
  <2>1. ~StoreOtp(s)
    <3>1. ASSUME StoreOtp(s)
          PROVE  StoresInto(s, t, f)
      <4>1. verifications'[t] =
              WithField(verifications[t], f,
                 [hashCreatedAt |-> request[s].at,
                  hashedOtp     |-> Hash(request[s].otp, s),
                  signedData    |-> generateSignature(s),
                  hashRetries   |-> 0])
        BY <1>1, <1>3, <3>1 DEF StoreOtp, UpdateField, IndInv, TypeOK
      <4>2. verifications[t] \in Documents
        BY <1>1, <1>3 DEF HasField, IndInv, TypeOK
      <4>. QED
        BY <1>1, <3>1, <4>1, <4>2 DEF WithField, Documents, StoresInto
    <3>. QED  BY <1>3, <3>1
  <2>2. Created(s)
    BY <1>1, <2>1
  <2>. QED  BY <1>1, <1>3, <2>2 DEF LastStored, SameOtp
<1>4. ASSUME NEW q \in Requests, ResetField(q)
      PROVE  FALSE
  <2>1. SameTask(q) /\ request[q].op = "reset"
    BY <1>4, EndsAs DEF Ends, ResetField, IndInv
  <2>. QED  BY <2>1 DEF SameTask, NoResets
<1>. QED  BY <1>1, <1>2, <1>3, <1>4, FieldWritten DEF IndInv

LEMMA LastSeenStep ==
  ASSUME IndInv, Bookkeeping, LastStored, LastSeen, Serial', Serial,
         [Next]_vars
  PROVE  LastSeen'
<1>. SUFFICES ASSUME NEW r \in Requests, NEW s \in Requests,
                     InFlight(r)', request'[r].op = "getNewOtp",
                     Created(s)', SameField(r, s)'
              PROVE  /\ request'[r].pc = "fetched" /\ SnapshotField(r)' # None =>
                          /\ SnapshotField(r)'.hashCreatedAt \in Time
                          /\ request'[s].at <= SnapshotField(r)'.hashCreatedAt
                     /\ request'[r].pc # "fetched" =>
                          request'[r].at >= request'[s].at + WAIT_FOR_OTP_SECONDS
  BY DEF LastSeen
<1>1. Created(s) /\ request'[s] = request[s] /\ request[s].at \in Time
  <2>1. ~Ends(s)
    BY NoTriesBeside
  <2>. QED
    BY <2>1, CreatedBefore DEF Bookkeeping, StoredAt, Created
<1>2. CASE Start(r)
  <2>1. /\ request'[r].pc = "fetched"
        /\ verifications[request'[r].transactionId] # None
        /\ request'[r].transaction = verifications[request'[r].transactionId]
    BY <1>2, StartsAs DEF IndInv, InFlight, InFlightAt
  <2>. QED
    BY <1>1, <2>1 DEF LastStored, SameField, SnapshotField, HasField
<1>3. CASE /\ InFlight(r)
           /\ request'[r].op = request[r].op
           /\ request'[r].transactionId = request[r].transactionId
           /\ request'[r].fieldId = request[r].fieldId
           /\ SnapshotField(r)' = SnapshotField(r)
           /\ request'[r] = request[r] \/ Advances(r)
  <2>1. /\ request[r].pc = "fetched" /\ SnapshotField(r) # None =>
              /\ SnapshotField(r).hashCreatedAt \in Time
              /\ request[s].at <= SnapshotField(r).hashCreatedAt
        /\ request[r].pc # "fetched" =>
              request[r].at >= request[s].at + WAIT_FOR_OTP_SECONDS
    BY <1>1, <1>3 DEF LastSeen, SameField
  <2>2. CASE request'[r] = request[r]
    BY <1>1, <1>3, <2>1, <2>2
  <2>3. ASSUME NEW otp \in Otps, GenerateOtp(r, otp)
        PROVE  /\ request'[r].pc # "fetched"
               /\ request'[r].at >= request[s].at + WAIT_FOR_OTP_SECONDS
    <3>1. /\ request[r].pc = "fetched"
          /\ request'[r].pc = "hashing"
          /\ request'[r].at = now
          /\ now \in Nat
      BY <2>3, GenerateEffect DEF IndInv, TypeOK, Time
    <3>2. /\ SnapshotField(r) # None
          /\ ~(waitToResendOtpSeconds(SnapshotField(r).hashCreatedAt) > 0)
      BY <2>3, NoneAssumption DEF GenerateOtp, GetNewOtpError, Replies
    <3>3. /\ SnapshotField(r).hashCreatedAt \in Time
          /\ request[s].at <= SnapshotField(r).hashCreatedAt
      BY <2>1, <3>1, <3>2
    <3>4. SnapshotField(r).hashCreatedAt + WAIT_FOR_OTP_SECONDS <= now
      BY <3>1, <3>2, <3>3, NoneAssumption, TimesAssumption
      DEF waitToResendOtpSeconds, Time
    <3>. QED  BY <1>1, <3>1, <3>3, <3>4, TimesAssumption DEF Time
  <2>4. CASE SignAnswer(r) \/ SendOtp(r)
    <3>1. /\ request[r].pc # "fetched"
          /\ request'[r].pc # "fetched"
          /\ request'[r].at = request[r].at
      BY <2>4, SignEffect, SendEffect DEF IndInv
    <3>. QED  BY <1>1, <2>1, <3>1
  <2>5. ~AcceptVerify(r) /\ ~CountRetry(r)
    BY <1>3 DEF AcceptVerify, CountRetry, IndInv, HandlersOK, HandlerOK
  <2>. QED  BY <1>1, <1>3, <2>2, <2>3, <2>4, <2>5 DEF Advances
<1>. QED  BY <1>2, <1>3, AtWork

LEMMA SpacedStep ==
  ASSUME IndInv, Bookkeeping, LastSeen, StoredOtpsSpaced, NoResets, [Next]_vars
  PROVE  StoredOtpsSpaced'
<1>. DEFINE Apart(a, b) == \/ a >= b + WAIT_FOR_OTP_SECONDS
                           \/ b >= a + WAIT_FOR_OTP_SECONDS
<1>1. ASSUME NEW r \in Requests, NEW s \in Requests, r # s,
             Created(r)', Created(s)', SameField(r, s)', StoreOtp(r), Ends(r)
      PROVE  Apart(request'[r].at, request'[s].at)
  <2>1. /\ SameTask(r)
        /\ request'[r].at = request[r].at
        /\ InFlight(r)
        /\ request[r].pc = "storing"
        /\ request[r].op = "getNewOtp"
    BY <1>1, EndsAs
    DEF IndInv, InFlight, StoreOtp, HandlersOK, HandlerOK
  <2>2. request'[s] = request[s] /\ Created(s)
    BY <1>1, <2>1 DEF SameTask, Created
  <2>. QED  BY <1>1, <2>1, <2>2 DEF LastSeen, SameField, SameTask
<1>2. ASSUME NEW r \in Requests, NEW s \in Requests, r # s,
             Created(r)', Created(s)', SameField(r, s)'
      PROVE  Apart(request'[r].at, request'[s].at)
  <2>1. CASE StoreOtp(r) /\ Ends(r)
    BY <1>1, <1>2, <2>1
  <2>2. CASE StoreOtp(s) /\ Ends(s)
    BY <1>1, <1>2, <2>2 DEF SameField
  <2>3. CASE /\ Created(r) /\ request'[r] = request[r]
             /\ Created(s) /\ request'[s] = request[s]
    BY <1>2, <2>3 DEF StoredOtpsSpaced, NoResets, Created, SameField
  <2>. QED  BY <1>2, <2>1, <2>2, <2>3, CreatedBefore
<1>. QED  BY <1>2 DEF StoredOtpsSpaced, Created, SameField

LEMMA SpacedInit == Init => SpacedInv
<1>1. Init => \A r \in Requests : ~Created(r)
  BY NoneAssumption DEF Init, NewRequest, Created, Replies
<1>. QED
  BY <1>1 DEF SpacedInv, LastStored, LastSeen, StoredOtpsSpaced, Created

LEMMA SpacedInvStep ==
  ASSUME IndInv, Bookkeeping, SpacedInv, Serial, Serial', [Next]_vars
  PROVE  SpacedInv'
  BY NoResetsBefore, LastStoredStep, LastSeenStep, SpacedStep DEF SpacedInv

(* The invariants say what OtpLimits says.                                 *)
LEMMA LimitsFollow ==
  ASSUME IndInv, CountInv, SpacedInv
  PROVE  OtpLimits
<1>. USE DEF CountInv
<1>0. ASSUME NEW hash, NEW replies
      PROVE  Attempts(hash, replies) = Attempted(request, hash, replies)
  BY DEF Attempts, Attempted, SnapshotField, SnapshotOf
<1>1. AttemptsWithinLimit
  <2>1. ASSUME NEW hash
        PROVE  Cardinality(Attempted(request, hash, Judged))
                 <= NUM_OTP_RETRIES
    <3>1. CASE Attempted(request, hash, Judged) = {}
      BY <3>1, FS_EmptySet, TimesAssumption
    <3>2. ASSUME NEW v \in Attempted(request, hash, Judged)
          PROVE  Cardinality(Attempted(request, hash, Judged))
                   <= NUM_OTP_RETRIES
      <4>1. /\ v \in Requests
            /\ request[v].op = "verifyOtp"
            /\ request[v].reply \in Judged
            /\ SnapshotField(v).hashedOtp = hash
        BY DEF Attempted, SnapshotOf, SnapshotField
      <4>. QED  BY <4>1 DEF JudgedLimit
    <3>. QED  BY <3>1, <3>2
  <2>. QED  BY <1>0, <2>1 DEF AttemptsWithinLimit, Judged
<1>2. StoredOtpsSpaced
  BY DEF SpacedInv, StoredOtpsSpaced, NoResets
<1>3. FreshOtpAcceptsAttempts
  <2>1. ASSUME NEW hash,
               NUM_OTP_RETRIES <= Cardinality(Attempted(request, hash, Tried))
        PROVE  Cardinality(Attempts(hash, {"OK", "INVALID_OTP", "ERROR"}))
                 >= NUM_OTP_RETRIES
    BY <1>0, <2>1, AttemptedFinite, TimesAssumption DEF Tried
  <2>. QED  BY <2>1 DEF FreshOtpAcceptsAttempts, RefusedAtLimit
<1>. QED  BY <1>1, <1>2, <1>3 DEF OtpLimits

LEMMA SerialInvariance ==
  SerialSpec => [](IndInv /\ CountInv /\ SpacedInv /\ Serial)
<1>1. Init => IndInv /\ CountInv /\ SpacedInv /\ Serial
  <2>1. Init => Serial
    BY DEF Init, Serial, InFlight, InFlightAt, NewRequest
  <2>. QED  BY <2>1, InitInv, CountInit, SpacedInit
<1>2. ASSUME IndInv, CountInv, SpacedInv, Serial, [Next /\ Serial']_vars
      PROVE  IndInv' /\ CountInv' /\ SpacedInv' /\ Serial'
  <2>1. [Next]_vars
    BY <1>2
  <2>2. Serial'
    BY <1>2 DEF vars, Serial, InFlight
  <2>. QED
    BY <1>2, <2>1, <2>2, NextInv, CountStep, SpacedInvStep DEF CountInv
<1>. QED  BY <1>1, <1>2, PTL DEF SerialSpec

(* A client that sends no request before the last is answered gets         *)
(* NUM_OTP_RETRIES attempts at every OTP it is sent and no more, and has   *)
(* OTPs stored no faster than one in WAIT_FOR_OTP_SECONDS, although every  *)
(* handler writes back what it computed from its own snapshot.             *)
THEOREM SerialLimits == SerialSpec => []OtpLimits
<1>1. IndInv /\ CountInv /\ SpacedInv => OtpLimits
  BY LimitsFollow
<1>. QED  BY <1>1, SerialInvariance, PTL

-----------------------------------------------------------------------------
(* The calls the page has made are calls it has the parameters for.        *)
CallsOK ==
    \A r \in Requests : calls[r] # None =>
        /\ transactionId \in TransactionIds
        /\ calls[r].op = "getNewOtp" => calls[r].answer \in Answers
        /\ calls[r].op = "verifyOtp" => calls[r].otp \in Otps

(* A signature the page holds is one that verifyOtp handed out.            *)
Released(sig) == sig = None \/ \E r \in Requests : request[r].data = sig

SignaturesReleased ==
    /\ Released(signature)
    /\ Released(lastRequested.signature)
    /\ Released(submission.signature)

(* The server accepts an answer with a signature over it.                  *)
AcceptedIsSigned ==
    submission.state = "accepted" /\ submission.answer # Empty =>
        /\ submission.signature # None
        /\ submission.signature.fieldId = TheField
        /\ submission.signature.answer = submission.answer

PageInv ==
    /\ PageTypeOK
    /\ CallsOK
    /\ SignaturesReleased
    /\ AcceptedIsSigned

(* Every step of the page and the service is, for the service, a step of   *)
(* its own or invisible.                                                   *)
LEMMA PageStepIsServiceStep ==
  ASSUME PageInv, [PageNext]_allVars
  PROVE  [Next]_vars
<1>1. ASSUME \/ Respondent
             \/ \E r \in Requests : Settle(r)
             \/ \E d \in resend.timers : ResendTimer(d)
             \/ AcceptSubmission \/ RejectSubmission
      PROVE  UNCHANGED vars
  BY <1>1 DEF Respondent, EditValue, ClickGetNewOtp, ClickVerifyOtp,
              ClickSubmit, Settle, NewOtpResolves, NewOtpRejects,
              VerificationSucceeds, VerificationFails, ResendTimer,
              AcceptSubmission, RejectSubmission, vars
<1>2. ASSUME NEW t \in TransactionIds, OpenTransaction(t)
      PROVE  Next
  BY <1>2, PageAssumption DEF OpenTransaction, Next, Environment
<1>3. ASSUME NEW r \in Requests, Serve(r)
      PROVE  Next
  BY <1>3 DEF Serve, Next
<1>4. ASSUME NEW r \in Requests, Arrive(r)
      PROVE  Next
  <2>1. Start(r)
    BY <1>4, PageAssumption DEF Arrive, Start, PageInv, CallsOK
  <2>. QED  BY <2>1 DEF Next
<1>5. ASSUME ServerEnvironment
      PROVE  Next
  BY <1>5 DEF ServerEnvironment, Next, Environment
<1>6. CASE UNCHANGED allVars
  BY <1>6 DEF allVars
<1>. QED  BY <1>1, <1>2, <1>3, <1>4, <1>5, <1>6 DEF PageNext, NotRespondent

LEMMA PageInitInv == PageInit => PageInv
  BY PageAssumption
  DEF PageInit, PageInv, PageTypeOK, CallsOK, SignaturesReleased, Released,
      AcceptedIsSigned, NoSubmission, Views

(* Posting a call the page has the parameters for.                         *)
LEMMA PostKeeps ==
  ASSUME PageInv, NEW op \in {"reset", "getNewOtp", "verifyOtp"},
         NEW answer \in Answers \cup {None}, NEW otp \in Otps \cup {None},
         op = "getNewOtp" => answer \in Answers,
         op = "verifyOtp" => otp \in Otps,
         transactionId # None, transactionId' = transactionId,
         Post(op, answer, otp)
  PROVE  /\ calls' \in [Requests -> Calls \cup {None}]
         /\ CallsOK'
         /\ NextCall \in Requests
<1>1. NextCall \in Requests
  BY DEF Post, NextCall
<1>2. [op |-> op, answer |-> answer, otp |-> otp] \in Calls
  BY DEF Calls
<1>3. calls' \in [Requests -> Calls \cup {None}]
  BY <1>1, <1>2 DEF Post, PageInv, PageTypeOK
<1>4. CallsOK'
  BY <1>1 DEF Post, PageInv, PageTypeOK, CallsOK
<1>. QED  BY <1>1, <1>3, <1>4

(* What was released stays released.                                       *)
LEMMA ReleasedKept ==
  ASSUME IndInv, [Next]_vars, NEW sig, Released(sig)
  PROVE  Released(sig)'
<1>1. ASSUME NEW r \in Requests, request[r].data = sig, sig # None
      PROVE  request'[r] = request[r]
  BY <1>1, Frame DEF IndInv, HandlersOK, HandlerOK
<1>. QED  BY <1>1 DEF Released

(* A step that makes no call and takes up no new signature.                *)
LEMMA QuietPageStep ==
  ASSUME IndInv, PageInv, [Next]_vars,
         UNCHANGED <<calls, signature, submission>>,
         transactionId' \in TransactionIds \cup {transactionId},
         lastRequested'.signature \in {lastRequested.signature, None}
  PROVE  CallsOK' /\ SignaturesReleased' /\ AcceptedIsSigned'
<1>1. SignaturesReleased'
  BY ReleasedKept DEF PageInv, SignaturesReleased, Released
<1>2. AcceptedIsSigned'
  BY DEF PageInv, AcceptedIsSigned
<1>3. CallsOK'
  BY DEF PageInv, CallsOK, PageTypeOK
<1>. QED  BY <1>1, <1>2, <1>3

LEMMA EditKeeps ==
  ASSUME IndInv, PageInv, [Next]_vars, NEW value \in Answers, EditValue(value)
  PROVE  PageInv'
<1>. USE DEF PageInv
<1>1. /\ calls' \in [Requests -> Calls \cup {None}]
      /\ CallsOK'
  <2>1. CASE UNCHANGED calls
    BY <2>1 DEF EditValue, CallsOK, PageTypeOK
  <2>2. CASE transactionId # None /\ Post("reset", None, None)
    BY <2>2, PostKeeps DEF EditValue
  <2>. QED  BY <2>1, <2>2 DEF EditValue, PostReset
<1>2. /\ signature' \in {lastRequested.signature, None}
      /\ UNCHANGED <<lastRequested, submission>>
  BY DEF EditValue
<1>3. PageTypeOK'
  BY <1>1, <1>2 DEF EditValue, PageTypeOK, Views
<1>4. SignaturesReleased'
  BY <1>2, ReleasedKept DEF SignaturesReleased, Released
<1>5. AcceptedIsSigned'
  BY <1>2 DEF AcceptedIsSigned
<1>. QED  BY <1>1, <1>3, <1>4, <1>5

LEMMA GetNewOtpKeeps ==
  ASSUME IndInv, PageInv, [Next]_vars, ClickGetNewOtp
  PROVE  PageInv'
<1>. USE DEF PageInv
<1>1. /\ calls' \in [Requests -> Calls \cup {None}]
      /\ awaiting' \in Requests \cup {None}
      /\ CallsOK'
  <2>1. CASE UNCHANGED <<calls, awaiting>>
    BY <2>1 DEF ClickGetNewOtp, CallsOK, PageTypeOK
  <2>2. CASE /\ transactionId # None
             /\ Post("getNewOtp", fieldValue, None)
             /\ awaiting' = NextCall
    BY <2>2, PostKeeps DEF ClickGetNewOtp, PageTypeOK
  <2>. QED  BY <2>1, <2>2 DEF ClickGetNewOtp
<1>2. lastRequested' = [value |-> fieldValue, verified |-> FALSE,
                        signature |-> None]
  BY DEF ClickGetNewOtp
<1>3. PageTypeOK'
  BY <1>1, <1>2 DEF ClickGetNewOtp, PageTypeOK, Views
<1>4. SignaturesReleased'
  BY <1>2, ReleasedKept DEF ClickGetNewOtp, SignaturesReleased, Released
<1>5. AcceptedIsSigned'
  BY DEF ClickGetNewOtp, AcceptedIsSigned
<1>. QED  BY <1>1, <1>3, <1>4, <1>5

LEMMA VerifyOtpKeeps ==
  ASSUME IndInv, PageInv, [Next]_vars, NEW otp \in Otps, ClickVerifyOtp(otp)
  PROVE  PageInv'
<1>. USE DEF PageInv
<1>1. /\ calls' \in [Requests -> Calls \cup {None}]
      /\ awaiting' \in Requests \cup {None}
      /\ CallsOK'
  <2>1. CASE UNCHANGED <<calls, awaiting>>
    BY <2>1 DEF ClickVerifyOtp, CallsOK, PageTypeOK
  <2>2. CASE /\ transactionId # None
             /\ Post("verifyOtp", None, otp)
             /\ awaiting' = NextCall
    BY <2>2, PostKeeps DEF ClickVerifyOtp
  <2>. QED  BY <2>1, <2>2 DEF ClickVerifyOtp
<1>2. lastRequested' \in {lastRequested,
                          [lastRequested EXCEPT !.verified = FALSE]}
  BY DEF ClickVerifyOtp
<1>3. /\ lastRequested' \in [value : Answers \cup {None}, verified : BOOLEAN,
                             signature : Signatures \cup {None}]
      /\ lastRequested'.signature = lastRequested.signature
  BY <1>2 DEF PageTypeOK
<1>4. view' \in Views /\ inputValid' \in BOOLEAN
  BY DEF ClickVerifyOtp, PageTypeOK, Views
<1>5. PageTypeOK'
  BY <1>1, <1>3, <1>4 DEF ClickVerifyOtp, PageTypeOK
<1>6. SignaturesReleased'
  BY <1>3, ReleasedKept DEF ClickVerifyOtp, SignaturesReleased, Released
<1>7. AcceptedIsSigned'
  BY DEF ClickVerifyOtp, AcceptedIsSigned
<1>. QED  BY <1>1, <1>5, <1>6, <1>7

LEMMA SettleKeeps ==
  ASSUME IndInv, PageInv, [Next]_vars, NEW r \in Requests, Settle(r)
  PROVE  PageInv'
<1>. USE DEF PageInv
<1>1. CASE NewOtpResolves(r)
  <2>1. PageTypeOK'
    <3>1. now + DISABLED_SECONDS \in Time
      BY PageAssumption DEF IndInv, TypeOK, Time
    <3>. QED  BY <1>1, <3>1 DEF NewOtpResolves, PageTypeOK, Views
  <2>. QED  BY <1>1, <2>1, QuietPageStep DEF NewOtpResolves
<1>2. CASE NewOtpRejects(r)
  <2>1. PageTypeOK'
    BY <1>2 DEF NewOtpRejects, PageTypeOK, Views
  <2>. QED  BY <1>2, <2>1, QuietPageStep DEF NewOtpRejects
<1>3. CASE VerificationSucceeds(r)
  <2>1. request[r].data \in Signatures \cup {None}
    BY DEF IndInv, TypeOK, HandlerStates
  <2>2. /\ lastRequested' \in [value : Answers \cup {None}, verified : BOOLEAN,
                               signature : Signatures \cup {None}]
        /\ lastRequested'.signature = request[r].data
    BY <1>3, <2>1 DEF VerificationSucceeds, PageTypeOK
  <2>3. PageTypeOK'
    BY <1>3, <2>1, <2>2 DEF VerificationSucceeds, PageTypeOK, Views
  <2>4. Released(request[r].data)
    BY DEF Released
  <2>5. SignaturesReleased'
    BY <1>3, <2>2, <2>4, ReleasedKept
    DEF VerificationSucceeds, SignaturesReleased, Released
  <2>6. CallsOK' /\ AcceptedIsSigned'
    BY <1>3 DEF VerificationSucceeds, CallsOK, AcceptedIsSigned
  <2>. QED  BY <2>3, <2>5, <2>6
<1>4. CASE VerificationFails(r)
  <2>1. /\ lastRequested' \in [value : Answers \cup {None}, verified : BOOLEAN,
                               signature : Signatures \cup {None}]
        /\ lastRequested'.signature = lastRequested.signature
    BY <1>4 DEF VerificationFails, PageTypeOK
  <2>2. PageTypeOK'
    BY <1>4, <2>1 DEF VerificationFails, PageTypeOK, Views
  <2>. QED  BY <1>4, <2>1, <2>2, QuietPageStep DEF VerificationFails
<1>. QED  BY <1>1, <1>2, <1>3, <1>4 DEF Settle

(* Posting the form, and the server's judgement of it.                     *)
LEMMA SubmissionKeeps ==
  ASSUME IndInv, PageInv, [Next]_vars,
         ClickSubmit \/ AcceptSubmission \/ RejectSubmission
  PROVE  PageInv'
<1>. USE DEF PageInv
<1>1. CallsOK'
  BY DEF ClickSubmit, AcceptSubmission, RejectSubmission, CallsOK
<1>2. CASE ClickSubmit
  <2>1. submission' = [state |-> "posted", answer |-> fieldValue,
                       signature |-> signature]
    BY <1>2 DEF ClickSubmit, NoSubmission
  <2>2. PageTypeOK'
    <3>1. fieldValue \in Answers /\ signature \in Signatures \cup {None}
      BY DEF PageTypeOK
    <3>2. submission' \in [state : {"none", "posted", "accepted"},
                           answer : Answers \cup {None},
                           signature : Signatures \cup {None}]
      BY <2>1, <3>1
    <3>. QED  BY <1>2, <3>2 DEF ClickSubmit, PageTypeOK
  <2>3. SignaturesReleased'
    BY <1>2, <2>1, ReleasedKept DEF ClickSubmit, SignaturesReleased, Released
  <2>4. AcceptedIsSigned'
    BY <2>1 DEF AcceptedIsSigned
  <2>. QED  BY <1>1, <2>2, <2>3, <2>4
<1>3. CASE AcceptSubmission
  <2>1. /\ submission'.state = "accepted"
        /\ submission'.answer = submission.answer
        /\ submission'.signature = submission.signature
        /\ submission' \in [state : {"none", "posted", "accepted"},
                            answer : Answers \cup {None},
                            signature : Signatures \cup {None}]
    <3>1. submission \in [state : {"none", "posted", "accepted"},
                         answer : Answers \cup {None},
                         signature : Signatures \cup {None}]
      BY DEF PageTypeOK
    <3>2. submission' = [submission EXCEPT !.state = "accepted"]
      BY <1>3 DEF AcceptSubmission
    <3>. QED  BY <3>1, <3>2
  <2>2. PageTypeOK'
    BY <1>3, <2>1 DEF AcceptSubmission, PageTypeOK
  <2>3. SignaturesReleased'
    BY <1>3, <2>1, ReleasedKept
    DEF AcceptSubmission, SignaturesReleased, Released
  <2>4. AcceptedIsSigned'
    BY <1>3, <2>1
    DEF AcceptSubmission, AcceptedIsSigned, isAnswerValid, isSignatureValid,
        authenticate
  <2>. QED  BY <1>1, <2>2, <2>3, <2>4
<1>4. CASE RejectSubmission
  <2>1. PageTypeOK'
    BY <1>4 DEF RejectSubmission, PageTypeOK, NoSubmission
  <2>2. SignaturesReleased'
    BY <1>4, ReleasedKept
    DEF RejectSubmission, SignaturesReleased, Released, NoSubmission
  <2>3. AcceptedIsSigned'
    BY <1>4 DEF RejectSubmission, AcceptedIsSigned, NoSubmission
  <2>. QED  BY <1>1, <2>1, <2>2, <2>3
<1>. QED  BY <1>2, <1>3, <1>4

LEMMA PageNextInv ==
  ASSUME IndInv, PageInv, [PageNext]_allVars
  PROVE  IndInv' /\ PageInv'
<1>1. [Next]_vars
  BY PageStepIsServiceStep
<1>2. IndInv'
  BY <1>1, NextInv
<1>3. ASSUME UNCHANGED pageVars
      PROVE  PageInv'
  <2>1. PageTypeOK'
    BY <1>3 DEF pageVars, PageInv, PageTypeOK
  <2>. QED  BY <1>1, <1>3, <2>1, QuietPageStep DEF pageVars, PageInv
<1>4. ASSUME Respondent
      PROVE  PageInv'
  BY <1>1, <1>4, EditKeeps, GetNewOtpKeeps, VerifyOtpKeeps, SubmissionKeeps
  DEF Respondent
<1>5. ASSUME NEW t \in TransactionIds, OpenTransaction(t)
      PROVE  PageInv'
  <2>1. PageTypeOK'
    BY <1>5 DEF OpenTransaction, PageInv, PageTypeOK
  <2>. QED  BY <1>1, <1>5, <2>1, QuietPageStep DEF OpenTransaction, PageInv
<1>6. ASSUME NEW d \in resend.timers, ResendTimer(d)
      PROVE  PageInv'
  <2>1. PageTypeOK'
    BY <1>6 DEF ResendTimer, PageInv, PageTypeOK
  <2>. QED  BY <1>1, <1>6, <2>1, QuietPageStep DEF ResendTimer, PageInv
<1>7. ASSUME \/ \E r \in Requests : Arrive(r) \/ Serve(r)
             \/ ServerEnvironment
             \/ UNCHANGED allVars
      PROVE  UNCHANGED pageVars
  BY <1>7 DEF Arrive, Serve, ServerEnvironment, allVars
<1>8. PageInv'
  BY <1>1, <1>3, <1>4, <1>5, <1>6, <1>7, SettleKeeps, SubmissionKeeps
  DEF PageNext, NotRespondent
<1>. QED  BY <1>2, <1>8

LEMMA PageInvariance == PageSpec => [](IndInv /\ PageInv)
<1>1. PageInit => IndInv /\ PageInv
  BY InitInv, PageInitInv DEF PageInit
<1>2. IndInv /\ PageInv /\ [PageNext]_allVars => (IndInv /\ PageInv)'
  BY PageNextInv
<1>. QED  BY <1>1, <1>2, PTL DEF PageSpec

(* The page's state is well-typed in every behaviour.                      *)
THEOREM PageTypesHold == PageSpec => []PageTypeOK
<1>1. PageInv => PageTypeOK
  BY DEF PageInv
<1>. QED  BY <1>1, PageInvariance, PTL

(* An accepted answer was verified by an OTP sent to it: the signature the *)
(* server accepts is one verifyOtp handed out, and those are safe.         *)
THEOREM AcceptedAnswersAreVerified == PageSpec => []AcceptedIsVerified
<1>1. ASSUME IndInv, PageInv
      PROVE  AcceptedIsVerified
  <2>. SUFFICES ASSUME submission.state = "accepted",
                       submission.answer # Empty
                PROVE  \E d \in ProvenDeliveries :
                          /\ d.fieldId = TheField
                          /\ d.recipient = submission.answer
    BY DEF AcceptedIsVerified
  <2>1. PICK r \in Requests : /\ request[r].data = submission.signature
                              /\ request[r].data # None
    BY <1>1 DEF PageInv, SignaturesReleased, Released, AcceptedIsSigned
  <2>2. Proof(r) \in ProvenDeliveries
    BY <2>1 DEF ProvenDeliveries, Proof
  <2>3. /\ Proof(r).fieldId = TheField
        /\ Proof(r).recipient = submission.answer
    BY <1>1, <2>1 DEF Proof, PageInv, AcceptedIsSigned
  <2>. QED  BY <2>2, <2>3
<1>. QED  BY <1>1, PageInvariance, PTL

(* For the service, the page is one of the clients Spec allows.            *)
THEOREM PageImplementsService == PageSpec => Spec
<1>1. PageInit => Init
  BY DEF PageInit
<1>2. PageInv /\ [PageNext]_allVars => [Next]_vars
  BY PageStepIsServiceStep
<1>. QED  BY <1>1, <1>2, PageInvariance, PTL DEF PageSpec, Spec

(***************************************************************************)
(* A valid input is signed, whatever the order of the calls and answers.   *)
(***************************************************************************)

(* A request the server has read is the call the page made under its id.   *)
RequestsMatch ==
    \A r \in Requests : request[r].pc # "new" =>
        /\ calls[r] # None
        /\ request[r].op = calls[r].op
        /\ request[r].transactionId = transactionId
        /\ request[r].fieldId = TheField
        /\ calls[r].op = "getNewOtp" => request[r].answer = calls[r].answer

(* verifyOtp answers 200 with a signature.                                 *)
VerifiedHasData ==
    \A r \in Requests :
        /\ request[r].pc = "done"
        /\ request[r].op = "verifyOtp"
        /\ Accepted(request[r].reply)
        => request[r].data # None

(* The OTP box is open only for a value not verified yet.                  *)
EntryUnverified ==
    /\ view \in {"VFN_WAITING_FOR_INPUT", "VFN_ERROR"} =>
          ~lastRequested.verified
    /\ awaiting # None /\ calls[awaiting].op = "getNewOtp" =>
          ~lastRequested.verified

SignedInv ==
    /\ RequestsMatch
    /\ VerifiedHasData
    /\ EntryUnverified
    /\ awaiting # None => calls[awaiting] # None
    /\ lastRequested.verified => lastRequested.signature # None
    /\ submission.state = "posted" /\ fieldValue # Empty =>
          submission.signature # None
    /\ ValidInputIsSigned

LEMMA SignedInit == PageInit => SignedInv
  BY DEF PageInit, Init, NewRequest, SignedInv, RequestsMatch,
         VerifiedHasData, EntryUnverified, ValidInputIsSigned, NoSubmission

(* The steps that are the page's alone.                                    *)
PageOnly ==
    \/ Respondent
    \/ \E r \in Requests : Settle(r)
    \/ \E d \in resend.timers : ResendTimer(d)
    \/ AcceptSubmission
    \/ RejectSubmission

LEMMA PageOnlyQuiet == PageOnly => UNCHANGED <<vars, transactionId>>
  BY DEF PageOnly, Respondent, EditValue, ClickGetNewOtp, ClickVerifyOtp,
         ClickSubmit, Settle, NewOtpResolves, NewOtpRejects,
         VerificationSucceeds, VerificationFails, ResendTimer,
         AcceptSubmission, RejectSubmission, vars

LEMMA PageStepKinds ==
  ASSUME [PageNext]_allVars
  PROVE  \/ PageOnly
         \/ \E t \in TransactionIds : OpenTransaction(t)
         \/ \E r \in Requests : Arrive(r)
         \/ \E r \in Requests : Serve(r)
         \/ UNCHANGED <<request, pageVars>>
  BY DEF PageNext, PageOnly, NotRespondent, allVars, vars, ServerEnvironment,
         ExpireTransaction, Tick

(* A posted call is under an id of its own.                                *)
LEMMA PostAs ==
  ASSUME PageInv, NEW op \in {"reset", "getNewOtp", "verifyOtp"},
         NEW answer \in Answers \cup {None}, NEW otp \in Otps \cup {None},
         Post(op, answer, otp)
  PROVE  /\ NextCall \in Requests
         /\ NextCall # None
         /\ calls[NextCall] = None
         /\ calls'[NextCall] = [op |-> op, answer |-> answer, otp |-> otp]
         /\ calls'[NextCall] # None
         /\ \A r \in Requests \ {NextCall} : calls'[r] = calls[r]
<1>1. NextCall \in Requests /\ calls[NextCall] = None
  BY DEF Post, NextCall
<1>2. [op |-> op, answer |-> answer, otp |-> otp] \in Calls
  BY DEF Calls
<1>3. [op |-> op, answer |-> answer, otp |-> otp] # None
  BY <1>2, NullAssumption
<1>. QED
  BY <1>1, <1>3, NullAssumption DEF Post, PageInv, PageTypeOK

LEMMA CallsStay ==
  ASSUME PageInv, [PageNext]_allVars, NEW r \in Requests, calls[r] # None
  PROVE  calls'[r] = calls[r] /\ transactionId' = transactionId
<1>1. CASE Respondent
  <2>1. UNCHANGED calls \/ \E op \in {"reset", "getNewOtp", "verifyOtp"},
              answer \in Answers \cup {None}, otp \in Otps \cup {None} :
           Post(op, answer, otp)
    BY <1>1
    DEF Respondent, EditValue, PostReset, ClickGetNewOtp, ClickVerifyOtp,
        ClickSubmit, PageInv, PageTypeOK
  <2>2. transactionId' = transactionId
    BY <1>1
    DEF Respondent, EditValue, ClickGetNewOtp, ClickVerifyOtp, ClickSubmit
  <2>. QED  BY <2>1, <2>2, PostAs
<1>2. CASE \E t \in TransactionIds : OpenTransaction(t)
  BY <1>2, NullAssumption DEF OpenTransaction, PageInv, CallsOK
<1>3. CASE \/ \E s \in Requests : Settle(s)
           \/ \E d \in resend.timers : ResendTimer(d)
           \/ AcceptSubmission
           \/ RejectSubmission
  BY <1>3
  DEF Settle, NewOtpResolves, NewOtpRejects, VerificationSucceeds,
      VerificationFails, ResendTimer, AcceptSubmission, RejectSubmission
<1>4. CASE \/ \E s \in Requests : Arrive(s) \/ Serve(s)
           \/ UNCHANGED pageVars
  BY <1>4 DEF Arrive, Serve, pageVars
<1>. QED  BY <1>1, <1>2, <1>3, <1>4, PageStepKinds DEF PageOnly

(* A call that reaches the server brings its parameters.                   *)
LEMMA ArriveAs ==
  ASSUME IndInv, PageInv, NEW r \in Requests, Arrive(r)
  PROVE  /\ Start(r)
         /\ calls[r] # None
         /\ request'[r].op = calls[r].op
         /\ request'[r].transactionId = transactionId
         /\ request'[r].fieldId = TheField
         /\ calls[r].op = "getNewOtp" => request'[r].answer = calls[r].answer
         /\ UNCHANGED pageVars
<1>1. PICK op \in {"reset", "getNewOtp", "verifyOtp"},
           answer \in Answers \cup {None}, otp \in Otps \cup {None} :
        /\ GetTransaction(r, op, transactionId, TheField, answer, otp)
        /\ op = calls[r].op
        /\ op = "getNewOtp" => answer = calls[r].answer
  BY DEF Arrive, StartReset, StartGetNewOtp, StartVerifyOtp, PageInv, CallsOK
<1>2. Start(r)
  BY PageAssumption DEF Arrive, Start, PageInv, CallsOK
<1>3. request[r] \in HandlerStates
  BY DEF IndInv, TypeOK
<1>4. /\ request'[r].op = op
      /\ request'[r].transactionId = transactionId
      /\ request'[r].fieldId = TheField
      /\ request'[r].answer = answer
  <2>1. CASE verifications[transactionId] = None
    BY <1>1, <1>3, <2>1 DEF GetTransaction, HandlerStates, IndInv, TypeOK
  <2>2. CASE verifications[transactionId] # None
    BY <1>1, <1>3, <2>2 DEF GetTransaction, HandlerStates, IndInv, TypeOK
  <2>. QED  BY <2>1, <2>2
<1>. QED  BY <1>1, <1>2, <1>4 DEF Arrive

LEMMA ServeAs ==
  ASSUME NEW r \in Requests, Serve(r)
  PROVE  /\ Advances(r) \/ Ends(r)
         /\ UNCHANGED pageVars
  BY DEF Serve, Continue, Advances, Ends

LEMMA RequestsMatchStep ==
  ASSUME IndInv, PageInv, RequestsMatch, [PageNext]_allVars
  PROVE  RequestsMatch'
<1>. SUFFICES ASSUME NEW s \in Requests, request'[s].pc # "new"
              PROVE  /\ calls'[s] # None
                     /\ request'[s].op = calls'[s].op
                     /\ request'[s].transactionId = transactionId'
                     /\ request'[s].fieldId = TheField
                     /\ calls'[s].op = "getNewOtp" =>
                           request'[s].answer = calls'[s].answer
  BY DEF RequestsMatch
<1>1. ASSUME request[s].pc # "new",
             request'[s].op = request[s].op,
             request'[s].transactionId = request[s].transactionId,
             request'[s].fieldId = request[s].fieldId,
             request'[s].answer = request[s].answer
      PROVE  /\ calls'[s] # None
             /\ request'[s].op = calls'[s].op
             /\ request'[s].transactionId = transactionId'
             /\ request'[s].fieldId = TheField
             /\ calls'[s].op = "getNewOtp" =>
                   request'[s].answer = calls'[s].answer
  BY <1>1, CallsStay DEF RequestsMatch
<1>2. CASE request'[s] = request[s]
  BY <1>1, <1>2
<1>3. CASE Arrive(s)
  BY <1>3, ArriveAs DEF pageVars
<1>4. CASE Advances(s) \/ Ends(s)
  BY <1>1, <1>4, AdvancesAs, EndsAs DEF SameTask, InFlightAt, IndInv
<1>5. \/ request'[s] = request[s]
      \/ Arrive(s) \/ Advances(s) \/ Ends(s)
  <2>1. ASSUME NEW r \in Requests, Arrive(r), r # s
        PROVE  request'[s] = request[s]
    BY <2>1, ArriveAs, StartsAs DEF IndInv
  <2>2. ASSUME NEW r \in Requests, Serve(r), r # s
        PROVE  request'[s] = request[s]
    BY <2>2, ServeAs, AdvancesAs, EndsAs DEF SameTask, IndInv
  <2>3. PageOnly => request' = request
    BY PageOnlyQuiet DEF vars
  <2>. QED
    BY <2>1, <2>2, <2>3, ServeAs, PageStepKinds
    DEF OpenTransaction, CreateTransaction
<1>. QED  BY <1>2, <1>3, <1>4, <1>5

(* A verifyOtp that succeeds has compared its OTP, and hands out the       *)
(* signature that was stored beside the hash.                              *)
LEMMA VerifySucceeds ==
  ASSUME IndInv, NEW r \in Requests, Ends(r), request[r].op = "verifyOtp",
         Accepted(request'[r].reply)
  PROVE  /\ CompareOtp(r)
         /\ request[r].pc = "comparing"
         /\ request'[r].data = SnapshotField(r).signedData
<1>1. ASSUME SendOtpFails(r) \/ StoreOtp(r)
      PROVE  FALSE
  BY <1>1 DEF SendOtpFails, StoreOtp, IndInv, HandlersOK, HandlerOK
<1>2. ASSUME RejectVerify(r)
      PROVE  FALSE
  <2>1. request'[r].reply = VerifyOtpError(r) /\ VerifyOtpError(r) # None
    BY <1>2, FinishAs DEF RejectVerify, IndInv
  <2>. QED  BY <2>1 DEF VerifyOtpError, Accepted
<1>3. ASSUME Fail(r)
      PROVE  FALSE
  BY <1>3, FinishAs DEF Fail, IndInv, Accepted
<1>4. CompareOtp(r)
  BY <1>1, <1>2, <1>3 DEF Ends, ResetField, RejectNewOtp
<1>5. request[r] \in HandlerStates
  BY DEF IndInv, TypeOK
<1>6. ASSUME ~Matches(request[r].otp, SnapshotField(r).hashedOtp)
      PROVE  FALSE
  <2>1. request'[r].reply = "INVALID_OTP"
    BY <1>4, <1>5, <1>6 DEF CompareOtp, HandlerStates, IndInv, TypeOK
  <2>. QED  BY <2>1 DEF Accepted
<1>7. request'[r].data = SnapshotField(r).signedData
  BY <1>4, <1>5, <1>6 DEF CompareOtp, HandlerStates, IndInv, TypeOK
<1>. QED  BY <1>4, <1>7 DEF CompareOtp

(* A finished getNewOtp of the page signed the answer it was called with.  *)
LEMMA SignedForCall ==
  ASSUME IndInv, PageInv, RequestsMatch, NEW q \in Requests,
         request[q].op = "getNewOtp", request[q].pc = "done",
         request[q].signedAt # None
  PROVE  /\ generateSignature(q) \in Signatures
         /\ generateSignature(q).fieldId = TheField
         /\ generateSignature(q).answer = calls[q].answer
         /\ calls[q] # None /\ calls[q].op = "getNewOtp"
<1>1. /\ calls[q] # None
      /\ calls[q].op = "getNewOtp"
      /\ request[q].answer = calls[q].answer
      /\ request[q].fieldId = TheField
  BY DEF RequestsMatch
<1>2. calls[q].answer \in Answers
  BY <1>1 DEF PageInv, CallsOK
<1>3. /\ request[q].transactionId \in TransactionIds
      /\ request[q].fieldId \in FieldIds
  BY DEF IndInv, HandlersOK, HandlerOK
<1>4. request[q].signedAt \in Time
  BY DEF IndInv, TypeOK, HandlerStates
<1>. QED  BY <1>1, <1>2, <1>3, <1>4 DEF generateSignature, Signatures

(* The OTP under comparison was stored with a signature.                   *)
LEMMA ComparedIsSigned ==
  ASSUME IndInv, PageInv, RequestsMatch, NEW r \in Requests,
         request[r].pc = "comparing"
  PROVE  SnapshotField(r).signedData # None
<1>1. SnapshotField(r) # None /\ SnapshotField(r).hashedOtp # None
  BY DEF IndInv, HandlersOK, HandlerOK
<1>2. FromOneOtp(request[r].transactionId, request[r].fieldId,
                 SnapshotField(r))
  BY <1>1, SnapshotKnown DEF InFlight, InFlightAt
<1>. QED  BY <1>1, <1>2, SignedForCall, NoneAssumption DEF FromOneOtp

(* How one request moves in a step of the page and the service.            *)
LEMMA PageMoves ==
  ASSUME IndInv, PageInv, [PageNext]_allVars, NEW s \in Requests
  PROVE  \/ request'[s] = request[s]
         \/ Arrive(s) /\ Start(s)
         \/ Serve(s) /\ (Advances(s) \/ Ends(s))
<1>1. ASSUME NEW r \in Requests, Arrive(r), r # s
      PROVE  request'[s] = request[s]
  BY <1>1, ArriveAs, StartsAs DEF IndInv
<1>2. ASSUME NEW r \in Requests, Serve(r), r # s
      PROVE  request'[s] = request[s]
  BY <1>2, ServeAs, AdvancesAs, EndsAs DEF SameTask, IndInv
<1>3. PageOnly => request' = request
  BY PageOnlyQuiet DEF vars
<1>. QED
  BY <1>1, <1>2, <1>3, ArriveAs, ServeAs, PageStepKinds
  DEF OpenTransaction, CreateTransaction

LEMMA VerifiedHasDataStep ==
  ASSUME IndInv, PageInv, RequestsMatch, VerifiedHasData,
         [PageNext]_allVars
  PROVE  VerifiedHasData'
<1>. SUFFICES ASSUME NEW s \in Requests, request'[s].pc = "done",
                     request'[s].op = "verifyOtp",
                     Accepted(request'[s].reply)
              PROVE  request'[s].data # None
  BY DEF VerifiedHasData, Accepted
<1>1. CASE request'[s] = request[s]
  BY <1>1 DEF VerifiedHasData
<1>2. CASE Start(s)
  BY <1>2, StartsAs DEF IndInv, Accepted
<1>3. CASE Advances(s)
  BY <1>3, AdvancesAs DEF IndInv, InFlightAt
<1>4. CASE Ends(s)
  <2>1. request[s].op = "verifyOtp"
    BY <1>4, EndsAs DEF IndInv, SameTask
  <2>. QED  BY <1>4, <2>1, VerifySucceeds, ComparedIsSigned
<1>. QED  BY <1>1, <1>2, <1>3, <1>4, PageMoves

(* The page's own steps keep its fields signed.                            *)
PageSigned ==
    /\ EntryUnverified
    /\ awaiting # None => calls[awaiting] # None
    /\ lastRequested.verified => lastRequested.signature # None
    /\ submission.state = "posted" /\ fieldValue # Empty =>
          submission.signature # None
    /\ ValidInputIsSigned

LEMMA EditSigned ==
  ASSUME IndInv, PageInv, PageSigned, [PageNext]_allVars,
         NEW value \in Answers, EditValue(value)
  PROVE  PageSigned'
<1>1. awaiting' # None => calls'[awaiting] = calls[awaiting]
  BY CallsStay DEF EditValue, PageSigned, PageInv, PageTypeOK
<1>. QED
  BY <1>1
  DEF EditValue, PageSigned, EntryUnverified, ValidInputIsSigned

LEMMA ClickSigned ==
  ASSUME IndInv, PageInv, PageSigned,
         ClickGetNewOtp \/ \E otp \in Otps : ClickVerifyOtp(otp)
  PROVE  PageSigned'
<1>. USE DEF PageSigned, EntryUnverified, ValidInputIsSigned
<1>1. CASE ClickGetNewOtp
  <2>1. lastRequested' = [value |-> fieldValue, verified |-> FALSE,
                          signature |-> None]
    BY <1>1 DEF ClickGetNewOtp
  <2>2. CASE UNCHANGED <<calls, awaiting>>
    BY <1>1, <2>1, <2>2 DEF ClickGetNewOtp
  <2>3. CASE /\ Post("getNewOtp", fieldValue, None)
             /\ awaiting' = NextCall
    <3>1. calls'[awaiting'] # None
      BY <2>3, PostAs DEF PageInv, PageTypeOK
    <3>. QED  BY <1>1, <2>1, <3>1 DEF ClickGetNewOtp
  <2>. QED  BY <1>1, <2>2, <2>3 DEF ClickGetNewOtp
<1>2. ASSUME NEW otp \in Otps, ClickVerifyOtp(otp)
      PROVE  PageSigned'
  <2>1. ~lastRequested.verified
    BY <1>2 DEF ClickVerifyOtp
  <2>2. CASE UNCHANGED <<calls, awaiting>>
    <3>1. ~lastRequested'.verified /\ ~inputValid'
      BY <1>2, <2>1, <2>2, PostAs, NullAssumption
      DEF ClickVerifyOtp, PageInv, PageTypeOK, isLoading
    <3>. QED  BY <1>2, <2>2, <3>1 DEF ClickVerifyOtp
  <2>3. CASE /\ Post("verifyOtp", None, otp)
             /\ awaiting' = NextCall
             /\ UNCHANGED <<inputValid, lastRequested>>
    <3>1. /\ calls'[awaiting'] # None
          /\ calls'[awaiting'].op = "verifyOtp"
      <4>1. /\ calls'[NextCall] =
                  [op |-> "verifyOtp", answer |-> None, otp |-> otp]
            /\ calls'[NextCall] # None
        BY <2>3, PostAs
      <4>. QED  BY <2>3, <4>1
    <3>. QED  BY <1>2, <2>1, <2>3, <3>1 DEF ClickVerifyOtp
  <2>. QED  BY <1>2, <2>2, <2>3 DEF ClickVerifyOtp
<1>. QED  BY <1>1, <1>2

LEMMA SettleSigned ==
  ASSUME IndInv, PageInv, RequestsMatch, VerifiedHasData, PageSigned,
         NEW r \in Requests, Settle(r)
  PROVE  PageSigned'
<1>. USE DEF PageSigned, EntryUnverified, ValidInputIsSigned
<1>1. CASE NewOtpResolves(r) \/ NewOtpRejects(r)
  BY <1>1, NullAssumption DEF NewOtpResolves, NewOtpRejects
<1>2. CASE VerificationSucceeds(r)
  <2>1. request[r].data # None
    BY <1>2, NullAssumption
    DEF VerificationSucceeds, RequestsMatch, VerifiedHasData
  <2>2. lastRequested'.signature = request[r].data
    BY <1>2 DEF VerificationSucceeds, PageInv, PageTypeOK
  <2>. QED  BY <1>2, <2>1, <2>2 DEF VerificationSucceeds
<1>3. CASE VerificationFails(r)
  <2>1. ~lastRequested'.verified
    BY <1>3 DEF VerificationFails, PageInv, PageTypeOK
  <2>. QED  BY <1>3, <2>1 DEF VerificationFails
<1>. QED  BY <1>1, <1>2, <1>3 DEF Settle

LEMMA SubmitSigned ==
  ASSUME PageInv, PageSigned,
         ClickSubmit \/ AcceptSubmission \/ RejectSubmission
  PROVE  PageSigned'
<1>. USE DEF PageSigned, EntryUnverified, ValidInputIsSigned
<1>1. CASE ClickSubmit
  BY <1>1 DEF ClickSubmit, FormValid, NoSubmission
<1>2. CASE AcceptSubmission
  <2>1. submission'.state = "accepted"
    BY <1>2 DEF AcceptSubmission, PageInv, PageTypeOK
  <2>. QED  BY <1>2, <2>1 DEF AcceptSubmission
<1>3. CASE RejectSubmission
  BY <1>3 DEF RejectSubmission, NoSubmission
<1>. QED  BY <1>1, <1>2, <1>3

LEMMA SignedStep ==
  ASSUME IndInv, PageInv, SignedInv, [PageNext]_allVars
  PROVE  SignedInv'
<1>1. RequestsMatch' /\ VerifiedHasData'
  BY RequestsMatchStep, VerifiedHasDataStep DEF SignedInv
<1>2. PageSigned
  BY DEF SignedInv, PageSigned
<1>3. ASSUME \/ UNCHANGED pageVars
             \/ \E t \in TransactionIds : OpenTransaction(t)
             \/ \E d \in resend.timers : ResendTimer(d)
      PROVE  PageSigned'
  BY <1>2, <1>3
  DEF pageVars, OpenTransaction, ResendTimer, PageSigned, EntryUnverified,
      ValidInputIsSigned
<1>4. PageSigned'
  BY <1>2, <1>3, PageStepKinds, EditSigned, ClickSigned, SettleSigned,
     SubmitSigned, ArriveAs, ServeAs
  DEF PageOnly, Respondent, SignedInv
<1>. QED  BY <1>1, <1>4 DEF SignedInv, PageSigned

(* A field that holds an answer and counts as valid carries a signature,   *)
(* whatever was edited while answers to earlier calls were on their way.   *)
THEOREM ValidInputsAreSigned == PageSpec => []ValidInputIsSigned
<1>1. PageInit => SignedInv
  BY SignedInit
<1>2. IndInv /\ PageInv /\ SignedInv /\ [PageNext]_allVars => SignedInv'
  BY SignedStep
<1>3. SignedInv => ValidInputIsSigned
  BY DEF SignedInv
<1>. QED  BY <1>1, <1>2, <1>3, PageInvariance, PTL DEF PageSpec

(***************************************************************************)
(* The orderly respondent: the page has at most one call under way, so     *)
(* what the service holds for the field is about the value an OTP was last *)
(* requested for.                                                          *)
(***************************************************************************)

OrderlyNext == (Settled /\ Respondent) \/ NotRespondent

Outstanding(r) == calls[r] # None /\ request[r].pc # "done"

OneOutstanding ==
    \A r, s \in Requests : Outstanding(r) /\ Outstanding(s) => r = s

(* What the widget shows while it awaits an answer.                        *)
Awaited ==
    awaiting # None =>
        /\ \A r \in Requests : Outstanding(r) => r = awaiting
        /\ \/ calls[awaiting].op = "getNewOtp" /\ view = "VFN_REQUESTED"
           \/ calls[awaiting].op = "verifyOtp" /\ view = "VFN_SUBMITTED"

(* What it shows while the server is at work, an error included that the   *)
(* page was told of too early.                                             *)
Unfinished ==
    \A r \in Requests : Outstanding(r) =>
        /\ calls[r].op = "reset" => view = "VFN_DEFAULT"
        /\ calls[r].op = "getNewOtp" =>
              /\ view \in {"VFN_REQUESTED", "VFN_ERROR"}
              /\ calls[r].answer = lastRequested.value
        /\ calls[r].op = "verifyOtp" =>
              view \in {"VFN_SUBMITTED", "VFN_ERROR"}

ValueRequested ==
    view # "VFN_DEFAULT" =>
        fieldValue = lastRequested.value /\ fieldValue # Empty

Covers(sig, value) ==
    /\ sig # None
    /\ sig.fieldId = TheField
    /\ sig.answer = value

TickCovered ==
    /\ lastRequested.verified =>
          /\ Covers(lastRequested.signature, lastRequested.value)
          /\ lastRequested.value # Empty
    /\ view = "VFN_SUCCESS" => Covers(signature, fieldValue)

ValidIsTicked == inputValid /\ fieldValue # Empty => view = "VFN_SUCCESS"

(* What a rejected submission puts back is what the page still shows.      *)
PostedKept ==
    submission.state = "posted" =>
        /\ awaiting = None
        /\ view = "VFN_SUCCESS" => Covers(submission.signature, fieldValue)
        /\ view # "VFN_SUCCESS" =>
              view = "VFN_DEFAULT" /\ fieldValue = Empty

PageOrder ==
    /\ OneOutstanding
    /\ Awaited
    /\ Unfinished
    /\ ValueRequested
    /\ TickCovered
    /\ ValidIsTicked
    /\ PostedKept

(* The signature stored for the field is over the value last requested,    *)
(* and is on its way out once the page is back at the start.               *)
StoredAnswer ==
    transactionId # None /\ HasField(transactionId, TheField) =>
        LET data == verifications[transactionId].fields[TheField].signedData
        IN  data # None =>
              /\ data.answer = lastRequested.value
              /\ view = "VFN_DEFAULT" =>
                    \E r \in Requests : Outstanding(r) /\ calls[r].op = "reset"

SnapshotAnswer ==
    \A r \in Requests :
        /\ InFlight(r)
        /\ request[r].op = "verifyOtp"
        /\ SnapshotField(r) # None
        /\ SnapshotField(r).signedData # None
        => SnapshotField(r).signedData.answer = lastRequested.value

DataAnswer ==
    awaiting # None /\ request[awaiting].data # None =>
        request[awaiting].data.answer = lastRequested.value

OtpOrder == StoredAnswer /\ SnapshotAnswer /\ DataAnswer

LEMMA OrderlyInit == PageInit => PageOrder /\ OtpOrder
  BY DEF PageInit, Init, NewRequest, PageOrder, OneOutstanding, Outstanding,
         Awaited, Unfinished, ValueRequested, TickCovered, ValidIsTicked,
         PostedKept, OtpOrder, StoredAnswer, SnapshotAnswer, DataAnswer,
         NoSubmission, InFlight, InFlightAt

LEMMA OrderlyIsPage == [OrderlyNext]_allVars => [PageNext]_allVars
  BY DEF OrderlyNext, PageNext

(* A finished request stays finished.                                      *)
LEMMA DoneStays ==
  ASSUME IndInv, PageInv, [PageNext]_allVars, NEW r \in Requests,
         request[r].pc = "done"
  PROVE  request'[r] = request[r]
  BY PageStepIsServiceStep, Frame DEF IndInv

(* Between the respondent's steps and the settling of calls, the page      *)
(* shows the same and fewer calls are under way.                           *)
LEMMA OrderQuiet ==
  ASSUME IndInv, PageInv, PageOrder, [PageNext]_allVars,
         UNCHANGED <<calls, awaiting, fieldValue, signature, inputValid,
                     lastRequested, view, submission>>
  PROVE  PageOrder'
<1>1. \A r \in Requests : Outstanding(r)' => Outstanding(r)
  BY DoneStays DEF Outstanding
<1>. QED
  BY <1>1
  DEF PageOrder, OneOutstanding, Awaited, Unfinished, ValueRequested,
      TickCovered, ValidIsTicked, PostedKept, Covers

(* A call the orderly respondent makes is the only one under way.          *)
LEMMA PostOrder ==
  ASSUME PageInv, Settled, UNCHANGED vars,
         NEW op \in {"reset", "getNewOtp", "verifyOtp"},
         NEW answer \in Answers \cup {None}, NEW otp \in Otps \cup {None},
         Post(op, answer, otp)
  PROVE  /\ \A r \in Requests : Outstanding(r)' => r = NextCall
         /\ calls'[NextCall].op = op
         /\ calls'[NextCall].answer = answer
         /\ calls[NextCall] = None
         /\ NextCall \in Requests
<1>1. /\ calls'[NextCall] = [op |-> op, answer |-> answer, otp |-> otp]
      /\ calls[NextCall] = None
      /\ NextCall \in Requests
      /\ \A r \in Requests \ {NextCall} : calls'[r] = calls[r]
  BY PostAs
<1>2. \A r \in Requests : ~Outstanding(r)
  BY DEF Settled, Outstanding
<1>. QED  BY <1>1, <1>2 DEF Outstanding, vars

LEMMA NothingOutstanding ==
  ASSUME Settled, UNCHANGED <<vars, calls>>
  PROVE  \A r \in Requests : ~Outstanding(r) /\ ~Outstanding(r)'
  BY DEF Settled, Outstanding, vars

LEMMA EditOrder ==
  ASSUME IndInv, PageInv, PageOrder, Settled,
         NEW value \in Answers, EditValue(value)
  PROVE  PageOrder'
<1>. USE DEF PageOrder
<1>0. UNCHANGED vars /\ awaiting = None /\ awaiting' = None
  BY DEF EditValue, Settled, isLoading
<1>1. \/ /\ Post("reset", None, None)
         /\ view' = "VFN_DEFAULT"
      \/ UNCHANGED calls
  BY DEF EditValue, PostReset
<1>2. OneOutstanding' /\ Awaited' /\ Unfinished'
  <2>1. CASE Post("reset", None, None) /\ view' = "VFN_DEFAULT"
    <3>1. /\ \A r \in Requests : Outstanding(r)' => r = NextCall
          /\ calls'[NextCall].op = "reset"
      BY <1>0, <2>1, PostOrder
    <3>. QED
      BY <1>0, <2>1, <3>1 DEF OneOutstanding, Awaited, Unfinished
  <2>2. CASE UNCHANGED calls
    <3>1. \A r \in Requests : ~Outstanding(r)'
      BY <1>0, <2>2, NothingOutstanding
    <3>. QED  BY <1>0, <3>1 DEF OneOutstanding, Awaited, Unfinished
  <2>. QED  BY <1>1, <2>1, <2>2
<1>3. ValueRequested' /\ TickCovered' /\ ValidIsTicked' /\ PostedKept'
  BY DEF EditValue, ValueRequested, TickCovered, ValidIsTicked, PostedKept,
         Covers
<1>. QED  BY <1>2, <1>3

LEMMA GetNewOtpOrder ==
  ASSUME IndInv, PageInv, PageOrder, Settled, ClickGetNewOtp
  PROVE  PageOrder'
<1>. USE DEF PageOrder
<1>1. lastRequested' = [value |-> fieldValue, verified |-> FALSE,
                        signature |-> None]
  BY DEF ClickGetNewOtp
<1>2. fieldValue # Empty /\ view # "VFN_SUCCESS"
  BY DEF ClickGetNewOtp, VerifyButtonEnabled, ResendEnabled, ValueRequested
<1>3. view' \in {"VFN_ERROR", "VFN_REQUESTED"}
  BY DEF ClickGetNewOtp
<1>4. /\ UNCHANGED <<vars, fieldValue, inputValid, submission>>
      /\ awaiting = None
  BY DEF ClickGetNewOtp, Settled, isLoading
<1>5. OneOutstanding' /\ Awaited' /\ Unfinished'
  <2>1. CASE UNCHANGED <<calls, awaiting>>
    <3>1. \A r \in Requests : ~Outstanding(r)'
      BY <1>4, <2>1, NothingOutstanding
    <3>. QED  BY <1>4, <2>1, <3>1 DEF OneOutstanding, Awaited, Unfinished
  <2>2. CASE /\ Post("getNewOtp", fieldValue, None)
             /\ awaiting' = NextCall
             /\ view' = "VFN_REQUESTED"
    <3>1. /\ \A r \in Requests : Outstanding(r)' => r = NextCall
          /\ calls'[NextCall].op = "getNewOtp"
          /\ calls'[NextCall].answer = fieldValue
      <4>1. fieldValue \in Answers
        BY DEF PageInv, PageTypeOK
      <4>. QED  BY <1>4, <2>2, <4>1, PostOrder
    <3>. QED
      BY <1>1, <2>2, <3>1 DEF OneOutstanding, Awaited, Unfinished
  <2>. QED  BY <2>1, <2>2 DEF ClickGetNewOtp
<1>6. ValueRequested' /\ TickCovered' /\ ValidIsTicked' /\ PostedKept'
  BY <1>1, <1>2, <1>3, <1>4
  DEF ValueRequested, TickCovered, ValidIsTicked, PostedKept
<1>. QED  BY <1>5, <1>6

LEMMA VerifyOtpOrder ==
  ASSUME IndInv, PageInv, PageOrder, EntryUnverified, Settled,
         NEW otp \in Otps, ClickVerifyOtp(otp)
  PROVE  PageOrder'
<1>. USE DEF PageOrder
<1>1. /\ ~lastRequested.verified
      /\ view \in {"VFN_WAITING_FOR_INPUT", "VFN_ERROR"}
      /\ fieldValue = lastRequested.value
      /\ fieldValue # Empty
  BY DEF ClickVerifyOtp, EntryUnverified, ValueRequested
<1>2. /\ ~lastRequested'.verified
      /\ lastRequested'.value = lastRequested.value
  <2>1. lastRequested' \in {lastRequested,
                            [lastRequested EXCEPT !.verified = FALSE]}
    BY DEF ClickVerifyOtp
  <2>. QED  BY <1>1, <2>1 DEF PageInv, PageTypeOK
<1>3. /\ view' \in {"VFN_ERROR", "VFN_SUBMITTED"}
      /\ inputValid' => inputValid
      /\ UNCHANGED <<vars, fieldValue, submission>>
      /\ awaiting = None
  BY <1>1 DEF ClickVerifyOtp, isLoading
<1>4. OneOutstanding' /\ Awaited' /\ Unfinished'
  <2>1. CASE UNCHANGED <<calls, awaiting>>
    <3>1. \A r \in Requests : ~Outstanding(r)'
      BY <1>3, <2>1, NothingOutstanding
    <3>. QED  BY <1>3, <2>1, <3>1 DEF OneOutstanding, Awaited, Unfinished
  <2>2. CASE /\ Post("verifyOtp", None, otp)
             /\ awaiting' = NextCall
             /\ view' = "VFN_SUBMITTED"
    <3>1. /\ \A r \in Requests : Outstanding(r)' => r = NextCall
          /\ calls'[NextCall].op = "verifyOtp"
      BY <1>3, <2>2, PostOrder
    <3>. QED  BY <2>2, <3>1 DEF OneOutstanding, Awaited, Unfinished
  <2>. QED  BY <2>1, <2>2 DEF ClickVerifyOtp
<1>5. ValueRequested' /\ TickCovered' /\ ValidIsTicked' /\ PostedKept'
  BY <1>1, <1>2, <1>3
  DEF ValueRequested, TickCovered, ValidIsTicked, PostedKept
<1>. QED  BY <1>4, <1>5

LEMMA SettleOrder ==
  ASSUME IndInv, PageInv, PageOrder, SignedInv, DataAnswer,
         NEW r \in Requests, Settle(r)
  PROVE  PageOrder'
<1>. USE DEF PageOrder
<1>1. /\ awaiting = r
      /\ awaiting' = None
      /\ r # None
      /\ UNCHANGED <<vars, calls, fieldValue, submission>>
  BY NullAssumption
  DEF Settle, NewOtpResolves, NewOtpRejects, VerificationSucceeds,
      VerificationFails
<1>2. /\ \A s \in Requests : Outstanding(s) => s = r
      /\ \A s \in Requests : Outstanding(s)' <=> Outstanding(s)
  BY <1>1 DEF Awaited, Outstanding, vars
<1>3. OneOutstanding' /\ Awaited' /\ PostedKept'
  BY <1>1, <1>2 DEF OneOutstanding, Awaited, PostedKept
<1>4. CASE NewOtpResolves(r)
  <2>1. ~Outstanding(r) /\ view = "VFN_REQUESTED"
    BY <1>1, <1>4 DEF NewOtpResolves, Outstanding, Awaited
  <2>. QED
    BY <1>1, <1>2, <1>3, <1>4, <2>1
    DEF NewOtpResolves, Unfinished, ValueRequested, TickCovered,
        ValidIsTicked, Covers
<1>5. CASE NewOtpRejects(r)
  <2>1. view = "VFN_REQUESTED"
    BY <1>1, <1>5 DEF NewOtpRejects, Awaited
  <2>. QED
    BY <1>1, <1>2, <1>3, <1>5, <2>1
    DEF NewOtpRejects, Unfinished, ValueRequested, TickCovered,
        ValidIsTicked, Covers
<1>6. CASE VerificationSucceeds(r)
  <2>1. ~Outstanding(r) /\ view = "VFN_SUBMITTED"
    BY <1>1, <1>6 DEF VerificationSucceeds, Outstanding, Awaited
  <2>2. /\ lastRequested'.value = lastRequested.value
        /\ lastRequested'.signature = request[r].data
        /\ signature' = request[r].data
        /\ view' = "VFN_SUCCESS"
    BY <1>6 DEF VerificationSucceeds, PageInv, PageTypeOK
  <2>3. request[r].data # None /\ request[r].fieldId = TheField
    BY <1>6
    DEF VerificationSucceeds, SignedInv, RequestsMatch, VerifiedHasData
  <2>4. Covers(request[r].data, lastRequested.value)
    BY <1>1, <2>3
    DEF DataAnswer, Covers, IndInv, SignatureNeedsDeliveredOtp
  <2>5. fieldValue = lastRequested.value /\ fieldValue # Empty
    BY <2>1 DEF ValueRequested
  <2>. QED
    BY <1>1, <1>2, <1>3, <2>1, <2>2, <2>4, <2>5
    DEF Unfinished, ValueRequested, TickCovered, ValidIsTicked, Covers
<1>7. CASE VerificationFails(r)
  <2>1. view = "VFN_SUBMITTED" /\ calls[r].op = "verifyOtp"
    BY <1>1, <1>7 DEF VerificationFails, Awaited
  <2>2. /\ ~lastRequested'.verified
        /\ lastRequested'.value = lastRequested.value
    BY <1>7 DEF VerificationFails, PageInv, PageTypeOK
  <2>. QED
    BY <1>1, <1>2, <1>3, <1>7, <2>1, <2>2
    DEF VerificationFails, Unfinished, ValueRequested, TickCovered,
        ValidIsTicked
<1>. QED  BY <1>4, <1>5, <1>6, <1>7 DEF Settle

LEMMA SubmitOrder ==
  ASSUME IndInv, PageInv, PageOrder,
         \/ Settled /\ ClickSubmit
         \/ AcceptSubmission
         \/ RejectSubmission
  PROVE  PageOrder'
<1>. USE DEF PageOrder
<1>1. UNCHANGED <<vars, calls, awaiting, fieldValue, inputValid,
                  lastRequested, view>>
  BY DEF ClickSubmit, AcceptSubmission, RejectSubmission
<1>2. \A s \in Requests : Outstanding(s)' <=> Outstanding(s)
  BY <1>1 DEF Outstanding, vars
<1>3. OneOutstanding' /\ Awaited' /\ Unfinished' /\ ValueRequested'
        /\ ValidIsTicked'
  BY <1>1, <1>2
  DEF OneOutstanding, Awaited, Unfinished, ValueRequested, ValidIsTicked
<1>4. CASE Settled /\ ClickSubmit
  <2>1. /\ submission'.signature = signature
        /\ signature' = signature
        /\ awaiting = None
        /\ inputValid
    BY <1>4 DEF ClickSubmit, NoSubmission, FormValid, Settled, isLoading
  <2>. QED
    BY <1>1, <1>3, <2>1
    DEF TickCovered, PostedKept, ValueRequested, ValidIsTicked, Covers
<1>5. CASE AcceptSubmission
  <2>1. submission'.state = "accepted" /\ signature' = signature
    BY <1>5 DEF AcceptSubmission, PageInv, PageTypeOK
  <2>. QED  BY <1>1, <1>3, <2>1 DEF TickCovered, PostedKept, Covers
<1>6. CASE RejectSubmission
  BY <1>1, <1>3, <1>6
  DEF RejectSubmission, NoSubmission, TickCovered, PostedKept, Covers
<1>. QED  BY <1>4, <1>5, <1>6

LEMMA PageOrderStep ==
  ASSUME IndInv, PageInv, SignedInv, PageOrder, DataAnswer,
         [OrderlyNext]_allVars
  PROVE  PageOrder'
<1>1. [PageNext]_allVars
  BY OrderlyIsPage
<1>2. CASE Settled /\ Respondent
  BY <1>2, EditOrder, GetNewOtpOrder, VerifyOtpOrder, SubmitOrder
  DEF Respondent, SignedInv
<1>3. CASE \/ \E r \in Requests : Settle(r)
           \/ AcceptSubmission
           \/ RejectSubmission
  BY <1>3, SettleOrder, SubmitOrder
<1>4. CASE \/ \E t \in TransactionIds : OpenTransaction(t)
           \/ \E d \in resend.timers : ResendTimer(d)
           \/ UNCHANGED pageVars
  BY <1>1, <1>4, OrderQuiet DEF OpenTransaction, ResendTimer, pageVars
<1>. QED
  BY <1>2, <1>3, <1>4
  DEF OrderlyNext, NotRespondent, Arrive, Serve, ServerEnvironment, allVars

(* What the orderly page's calls are about does not change under way.      *)
LEMMA UnderWay ==
  ASSUME SignedInv, NEW r \in Requests, InFlight(r)
  PROVE  /\ Outstanding(r)
         /\ ~Settled
         /\ request[r].op = calls[r].op
         /\ request[r].transactionId = transactionId
         /\ request[r].fieldId = TheField
         /\ calls[r].op = "getNewOtp" => request[r].answer = calls[r].answer
  BY DEF SignedInv, RequestsMatch, InFlight, InFlightAt, Outstanding, Settled

LEMMA ValueChanges ==
  ASSUME PageInv, [OrderlyNext]_allVars,
         lastRequested'.value # lastRequested.value
  PROVE  Settled /\ ClickGetNewOtp
<1>1. ASSUME NEW r \in Requests, Settle(r)
      PROVE  FALSE
  BY <1>1
  DEF Settle, NewOtpResolves, NewOtpRejects, VerificationSucceeds,
      VerificationFails, PageInv, PageTypeOK
<1>2. ASSUME NEW otp \in Otps, ClickVerifyOtp(otp)
      PROVE  FALSE
  BY <1>2 DEF ClickVerifyOtp, PageInv, PageTypeOK
<1>. QED
  BY <1>1, <1>2
  DEF OrderlyNext, NotRespondent, Respondent, EditValue, ClickSubmit,
      OpenTransaction, ResendTimer, AcceptSubmission, RejectSubmission,
      Arrive, Serve, ServerEnvironment, allVars, pageVars

LEMMA SnapshotAnswerStep ==
  ASSUME IndInv, PageInv, SignedInv, StoredAnswer, SnapshotAnswer,
         [OrderlyNext]_allVars
  PROVE  SnapshotAnswer'
<1>. SUFFICES ASSUME NEW s \in Requests, InFlight(s)',
                     request'[s].op = "verifyOtp",
                     SnapshotField(s)' # None,
                     SnapshotField(s)'.signedData # None
              PROVE  SnapshotField(s)'.signedData.answer =
                        lastRequested'.value
  BY DEF SnapshotAnswer
<1>1. [PageNext]_allVars
  BY OrderlyIsPage
<1>2. CASE request'[s] = request[s]
  <2>1. InFlight(s) /\ SnapshotField(s)' = SnapshotField(s)
    BY <1>2 DEF InFlight, SnapshotField
  <2>2. lastRequested'.value = lastRequested.value
    BY <2>1, UnderWay, ValueChanges
  <2>. QED  BY <1>2, <2>1, <2>2 DEF SnapshotAnswer
<1>3. CASE Arrive(s) /\ Start(s)
  <2>1. /\ request'[s].transactionId = transactionId
        /\ request'[s].fieldId = TheField
        /\ lastRequested' = lastRequested
    BY <1>3, ArriveAs DEF pageVars
  <2>2. /\ transactionId \in TransactionIds
        /\ verifications[transactionId] # None
        /\ request'[s].transaction = verifications[transactionId]
    BY <1>3, <2>1, StartsAs DEF IndInv, InFlight, InFlightAt
  <2>3. /\ HasField(transactionId, TheField)
        /\ SnapshotField(s)' = verifications[transactionId].fields[TheField]
    BY <2>1, <2>2 DEF HasField, SnapshotField
  <2>. QED  BY <2>1, <2>2, <2>3, NullAssumption DEF StoredAnswer
<1>4. CASE Serve(s) /\ Advances(s)
  <2>1. /\ InFlight(s)
        /\ request[s].op = "verifyOtp"
        /\ SnapshotField(s)' = SnapshotField(s)
    BY <1>4, AdvancesAs DEF IndInv, SameTask, InFlight, SnapshotField
  <2>. QED  BY <1>4, <2>1, ServeAs DEF SnapshotAnswer, pageVars
<1>5. CASE Ends(s)
  BY <1>5, EndsAs DEF IndInv, InFlight, InFlightAt
<1>. QED  BY <1>1, <1>2, <1>3, <1>4, <1>5, PageMoves

(* The widget starts awaiting a call as it makes it.                       *)
LEMMA AwaitingStarts ==
  ASSUME PageInv, SignedInv, [OrderlyNext]_allVars,
         awaiting' # None, awaiting' # awaiting
  PROVE  /\ awaiting' \in Requests
         /\ request[awaiting'].pc = "new"
         /\ UNCHANGED vars
<1>1. /\ \/ ClickGetNewOtp
         \/ \E otp \in Otps : ClickVerifyOtp(otp)
      /\ UNCHANGED vars
  BY DEF OrderlyNext, NotRespondent, Respondent, EditValue, ClickSubmit,
         ClickGetNewOtp, ClickVerifyOtp,
         OpenTransaction, ResendTimer, AcceptSubmission, RejectSubmission,
         Settle, NewOtpResolves, NewOtpRejects, VerificationSucceeds,
         VerificationFails, Arrive, Serve, ServerEnvironment, allVars, pageVars
<1>2. /\ awaiting' = NextCall
      /\ \E r \in Requests : calls[r] = None
  BY <1>1 DEF ClickGetNewOtp, ClickVerifyOtp, Post
<1>3. NextCall \in Requests /\ calls[NextCall] = None
  BY <1>2 DEF NextCall
<1>. QED  BY <1>1, <1>2, <1>3 DEF SignedInv, RequestsMatch

LEMMA DataAnswerStep ==
  ASSUME IndInv, PageInv, SignedInv, SnapshotAnswer, DataAnswer,
         [OrderlyNext]_allVars
  PROVE  DataAnswer'
<1>. SUFFICES ASSUME awaiting' # None, request'[awaiting'].data # None
              PROVE  request'[awaiting'].data.answer = lastRequested'.value
  BY DEF DataAnswer
<1>1. [PageNext]_allVars /\ [Next]_vars
  BY OrderlyIsPage, PageStepIsServiceStep
<1>2. awaiting' = awaiting
  <2>. SUFFICES ASSUME awaiting' # awaiting  PROVE FALSE
    OBVIOUS
  <2>1. awaiting' \in Requests /\ request[awaiting'].data = None
    BY AwaitingStarts DEF IndInv, HandlersOK, HandlerOK
  <2>. QED  BY <2>1, AwaitingStarts DEF vars
<1>3. awaiting \in Requests
  BY <1>2 DEF PageInv, PageTypeOK
<1>4. lastRequested'.value = lastRequested.value
  BY <1>2, ValueChanges DEF Settled, isLoading
<1>5. CASE request'[awaiting] = request[awaiting]
  BY <1>2, <1>4, <1>5 DEF DataAnswer
<1>6. CASE CompareOtp(awaiting)
  <2>1. /\ InFlight(awaiting)
        /\ request[awaiting].op = "verifyOtp"
        /\ SnapshotField(awaiting) # None
        /\ request[awaiting].data = None
    BY <1>3, <1>6 DEF CompareOtp, InFlight, InFlightAt, IndInv, HandlersOK,
                      HandlerOK
  <2>2. request'[awaiting].data \in {None, SnapshotField(awaiting).signedData}
    BY <1>3, <1>6, <2>1 DEF CompareOtp, IndInv, TypeOK, HandlerStates
  <2>. QED  BY <1>2, <1>3, <1>4, <2>1, <2>2 DEF SnapshotAnswer
<1>. QED  BY <1>1, <1>2, <1>3, <1>5, <1>6, SignatureComesFrom

(* A reset under way goes on until the field is cleared.                   *)
LEMMA ResetUnderWay ==
  ASSUME IndInv, PageInv, SignedInv, [PageNext]_allVars, UNCHANGED calls,
         transactionId # None, HasField(transactionId, TheField),
         HasField(transactionId, TheField)',
         verifications'[transactionId].fields[TheField].signedData # None,
         NEW q \in Requests, Outstanding(q), calls[q].op = "reset"
  PROVE  Outstanding(q)'
<1>. SUFFICES ASSUME request'[q].pc = "done"  PROVE FALSE
  BY DEF Outstanding
<1>1. CASE request'[q] = request[q]
  BY <1>1 DEF Outstanding
<1>2. CASE Arrive(q) /\ Start(q)
  BY <1>2, ArriveAs, StartsAs DEF IndInv, HasField
<1>3. CASE Advances(q)
  BY <1>3, AdvancesAs DEF IndInv, InFlightAt
<1>4. CASE Serve(q) /\ Ends(q)
  <2>1. InFlight(q)
    BY <1>4, EndsAs DEF IndInv, InFlight
  <2>2. /\ request[q].op = "reset"
        /\ request[q].transactionId = transactionId
        /\ request[q].fieldId = TheField
        /\ transactionId \in TransactionIds
    BY <2>1, UnderWay DEF PageInv, PageTypeOK
  <2>3. ResetField(q)
    BY <1>4, <2>2
    DEF Serve, Continue, RejectNewOtp, GenerateOtp, SignAnswer, SendOtp,
        SendOtpFails, StoreOtp, RejectVerify, AcceptVerify, CountRetry,
        CompareOtp, IndInv, HandlersOK, HandlerOK
  <2>4. UpdateField(transactionId, TheField, EmptyField)
    BY <2>2, <2>3 DEF ResetField
  <2>5. verifications[transactionId] \in Documents
    BY <2>2 DEF IndInv, TypeOK, HasField
  <2>6. verifications'[transactionId].fields[TheField] = EmptyField
    BY <2>2, <2>4, <2>5, PageAssumption
    DEF UpdateField, WithField, Documents, IndInv, TypeOK
  <2>. QED  BY <2>6 DEF EmptyField
<1>. QED  BY <1>1, <1>2, <1>3, <1>4, PageMoves

(* Between the respondent's steps the service stores the OTP asked for.    *)
LEMMA StoredQuiet ==
  ASSUME IndInv, PageInv, SignedInv, PageOrder, StoredAnswer,
         [PageNext]_allVars, UNCHANGED pageVars
  PROVE  StoredAnswer'
<1>. DEFINE old == verifications[transactionId].fields[TheField]
            new == verifications'[transactionId].fields[TheField]
<1>. SUFFICES ASSUME transactionId # None, HasField(transactionId, TheField)',
                     new.signedData # None
              PROVE  /\ new.signedData.answer = lastRequested.value
                     /\ view = "VFN_DEFAULT" =>
                           \E r \in Requests :
                              Outstanding(r)' /\ calls[r].op = "reset"
  BY DEF StoredAnswer, pageVars, HasField
<1>1. /\ transactionId \in TransactionIds
      /\ TheField \in FieldIds
      /\ [Next]_vars
      /\ UNCHANGED calls
  BY PageAssumption, PageStepIsServiceStep DEF PageInv, PageTypeOK, pageVars
<1>2. CASE HasField(transactionId, TheField) /\ SameOtp(old, new)
  <2>1. new.signedData = old.signedData
    BY <1>2 DEF SameOtp
  <2>2. /\ old.signedData.answer = lastRequested.value
        /\ view = "VFN_DEFAULT" =>
              \E r \in Requests : Outstanding(r) /\ calls[r].op = "reset"
    BY <1>2, <2>1 DEF StoredAnswer
  <2>. QED  BY <1>1, <1>2, <2>1, <2>2, ResetUnderWay
<1>3. CASE NoOtp(new)
  BY <1>3 DEF NoOtp
<1>4. ASSUME NEW r \in Requests, StoresInto(r, transactionId, TheField)
      PROVE  /\ new.signedData.answer = lastRequested.value
             /\ view # "VFN_DEFAULT"
  <2>1. new.signedData.answer = request[r].answer
    BY <1>4 DEF StoresInto, generateSignature
  <2>2. InFlight(r) /\ request[r].op = "getNewOtp"
    BY <1>4 DEF StoresInto, StoreOtp, InFlight, InFlightAt, IndInv,
                HandlersOK, HandlerOK
  <2>3. /\ Outstanding(r)
        /\ calls[r].op = "getNewOtp"
        /\ request[r].answer = calls[r].answer
    BY <2>2, UnderWay
  <2>. QED  BY <2>1, <2>3 DEF PageOrder, Unfinished
<1>. HIDE DEF old, new
<1>5. \/ HasField(transactionId, TheField) /\ SameOtp(old, new)
      \/ NoOtp(new)
      \/ \E r \in Requests : StoresInto(r, transactionId, TheField)
  <2>1. PICK t \in TransactionIds : t = transactionId
    BY <1>1
  <2>2. t = transactionId'
    BY <2>1 DEF pageVars
  <2>3. HasField(t, TheField)'
    BY <2>2 DEF HasField
  <2>4. \/ /\ HasField(t, TheField)
           /\ SameOtp(verifications[t].fields[TheField],
                      verifications'[t].fields[TheField])
        \/ NoOtp(verifications'[t].fields[TheField])
        \/ \E r \in Requests : StoresInto(r, t, TheField)
    BY <1>1, <2>3, FieldWritten DEF IndInv
  <2>. QED  BY <2>1, <2>2, <2>4 DEF old, new
<1>. QED  BY <1>2, <1>3, <1>4, <1>5

(* The respondent's steps leave the service alone: an edit has the stored  *)
(* OTP on its way out, and an OTP is asked for before any is stored.       *)
LEMMA StoredRespondent ==
  ASSUME IndInv, PageInv, SignedInv, PageOrder, StoredAnswer,
         Settled, Respondent
  PROVE  StoredAnswer'
<1>. DEFINE data == verifications[transactionId].fields[TheField].signedData
<1>1. UNCHANGED <<vars, transactionId>>
  BY PageOnlyQuiet DEF PageOnly
<1>. SUFFICES ASSUME transactionId # None,
                     HasField(transactionId, TheField), data # None
              PROVE  /\ data.answer = lastRequested'.value
                     /\ view' = "VFN_DEFAULT" =>
                           \E r \in Requests :
                              Outstanding(r)' /\ calls'[r].op = "reset"
  BY <1>1 DEF StoredAnswer, vars, HasField
<1>. HIDE DEF data
<1>2. data.answer = lastRequested.value /\ view # "VFN_DEFAULT"
  BY DEF StoredAnswer, Settled, Outstanding, data
<1>3. fieldValue = lastRequested.value
  BY <1>2 DEF PageOrder, ValueRequested
<1>4. ASSUME NEW value \in Answers, EditValue(value)
      PROVE  /\ lastRequested' = lastRequested
             /\ view' = "VFN_DEFAULT" =>
                   \E r \in Requests :
                      Outstanding(r)' /\ calls'[r].op = "reset"
  <2>1. view' = "VFN_DEFAULT" => Post("reset", None, None)
    BY <1>2, <1>4 DEF EditValue, PostReset
  <2>2. ASSUME Post("reset", None, None)
        PROVE  /\ NextCall \in Requests
               /\ calls'[NextCall] # None
               /\ calls'[NextCall].op = "reset"
               /\ request'[NextCall].pc = "new"
    <3>1. /\ NextCall \in Requests
          /\ calls[NextCall] = None
          /\ calls'[NextCall] =
                [op |-> "reset", answer |-> None, otp |-> None]
          /\ calls'[NextCall] # None
      BY <2>2, PostAs
    <3>2. request[NextCall].pc = "new"
      BY <3>1 DEF SignedInv, RequestsMatch
    <3>. QED  BY <1>1, <3>1, <3>2 DEF vars
  <2>. QED  BY <1>4, <2>1, <2>2 DEF EditValue, Outstanding
<1>5. CASE ClickGetNewOtp
  BY <1>2, <1>3, <1>5 DEF ClickGetNewOtp
<1>6. ASSUME NEW otp \in Otps, ClickVerifyOtp(otp)
      PROVE  /\ lastRequested'.value = lastRequested.value
             /\ view' # "VFN_DEFAULT"
  BY <1>6 DEF ClickVerifyOtp, PageInv, PageTypeOK
<1>7. CASE ClickSubmit
  BY <1>2, <1>7 DEF ClickSubmit
<1>. QED  BY <1>2, <1>4, <1>5, <1>6, <1>7 DEF Respondent

LEMMA StoredAnswerStep ==
  ASSUME IndInv, PageInv, SignedInv, PageOrder, StoredAnswer,
         [OrderlyNext]_allVars
  PROVE  StoredAnswer'
<1>1. [PageNext]_allVars
  BY OrderlyIsPage
<1>2. CASE Settled /\ Respondent
  BY <1>2, StoredRespondent
<1>3. CASE UNCHANGED pageVars
  BY <1>1, <1>3, StoredQuiet
<1>4. ASSUME NEW t \in TransactionIds, OpenTransaction(t)
      PROVE  StoredAnswer'
  BY <1>4, PageAssumption
  DEF OpenTransaction, CreateTransaction, StoredAnswer, HasField, EmptyField,
      IndInv, TypeOK
<1>5. CASE \/ \E r \in Requests : Settle(r)
           \/ \E d \in resend.timers : ResendTimer(d)
           \/ AcceptSubmission
           \/ RejectSubmission
  <2>1. /\ UNCHANGED <<vars, transactionId, calls>>
        /\ view' \in {view, "VFN_WAITING_FOR_INPUT", "VFN_ERROR", "VFN_SUCCESS"}
    BY <1>5 DEF Settle, NewOtpResolves, NewOtpRejects, VerificationSucceeds,
                VerificationFails, ResendTimer, AcceptSubmission,
                RejectSubmission
  <2>2. lastRequested'.value = lastRequested.value
    BY <1>5 DEF Settle, NewOtpResolves, NewOtpRejects, VerificationSucceeds,
                VerificationFails, ResendTimer, AcceptSubmission,
                RejectSubmission, PageInv, PageTypeOK
  <2>. QED
    BY <2>1, <2>2 DEF StoredAnswer, HasField, Outstanding, vars
<1>. QED
  BY <1>2, <1>3, <1>4, <1>5
  DEF OrderlyNext, NotRespondent, Arrive, Serve, ServerEnvironment, allVars

OrderlyInv ==
    /\ IndInv
    /\ PageInv
    /\ SignedInv
    /\ PageOrder
    /\ OtpOrder

LEMMA OrderlyInvariance == OrderlySpec => []OrderlyInv
<1>1. PageInit => OrderlyInv
  BY InitInv, PageInitInv, SignedInit, OrderlyInit DEF PageInit, OrderlyInv
<1>2. ASSUME OrderlyInv, [OrderlyNext]_allVars
      PROVE  OrderlyInv'
  <2>1. [PageNext]_allVars
    BY <1>2, OrderlyIsPage
  <2>. QED
    BY <1>2, <2>1, PageNextInv, SignedStep, PageOrderStep, StoredAnswerStep,
       SnapshotAnswerStep, DataAnswerStep
    DEF OrderlyInv, OtpOrder
<1>. QED  BY <1>1, <1>2, PTL DEF OrderlySpec, OrderlyNext

(* For a respondent who waits for each answer, the tick means what its     *)
(* comment says: the field carries a signature over the answer in it.      *)
THEOREM OrderlyTick == OrderlySpec => []TickMeansVerified
<1>1. OrderlyInv => TickMeansVerified
  BY DEF OrderlyInv, PageOrder, TickCovered, Covers, TickMeansVerified
<1>. QED  BY <1>1, OrderlyInvariance, PTL

(* The orderly page is a serial client of the service,                     *)
THEOREM OrderlyIsSerial == OrderlySpec => SerialSpec
<1>1. PageInit => Init
  BY DEF PageInit
<1>2. OrderlyInv => Serial
  <2>. SUFFICES ASSUME OrderlyInv, NEW r \in Requests, NEW s \in Requests,
                       InFlight(r), InFlight(s)
                PROVE  r = s
    BY DEF Serial
  <2>. QED  BY UnderWay DEF OrderlyInv, PageOrder, OneOutstanding
<1>3. OrderlyInv /\ Serial' /\ [OrderlyNext]_allVars => [Next /\ Serial']_vars
  BY OrderlyIsPage, PageStepIsServiceStep DEF OrderlyInv
<1>. QED
  BY <1>1, <1>2, <1>3, OrderlyInvariance, PTL
  DEF OrderlySpec, OrderlyNext, SerialSpec

(* so it has the limits on OTPs and attempts that a serial client has.     *)
THEOREM OrderlyLimits == OrderlySpec => []OtpLimits
  BY OrderlyIsSerial, SerialLimits, PTL

==============================================================================
