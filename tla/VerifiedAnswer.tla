--------------------------- MODULE VerifiedAnswer ----------------------------
(***************************************************************************)
(* What field verification promises a form: a verified answer is one whose *)
(* owner read an OTP that was sent to that answer.                         *)
(*                                                                         *)
(* The specification knows nothing of requests, hashes, retries or time.   *)
(* An OTP is delivered to an answer; somebody who enters a delivered OTP   *)
(* may be given the verified status of the answer it was delivered to, and *)
(* of no other.                                                            *)
(***************************************************************************)

CONSTANTS
    TransactionIds,
    FieldIds,
    Answers,
    Otps

VARIABLES
    delivered,  \* the OTPs delivered, each with the answer it went to
    verified    \* the answers verified, each with the OTP that was entered

avars == <<delivered, verified>>

Deliveries == [transactionId : TransactionIds, fieldId : FieldIds,
               recipient : Answers, otp : Otps]

AInit ==
    /\ delivered = {}
    /\ verified = {}

Deliver(d) ==
    /\ delivered' = delivered \cup {d}
    /\ UNCHANGED verified

Verify(d) ==
    /\ d \in delivered
    /\ verified' = verified \cup {d}
    /\ UNCHANGED delivered

ANext == \E d \in Deliveries : Deliver(d) \/ Verify(d)

ASpec == AInit /\ [][ANext]_avars
=============================================================================
