SPECIFICATION Spec
CONSTANTS
    TransactionIds = {t1}
    FieldIds = {f1}
    Answers = {a1, a2}
    Otps = {o1, o2}
    Requests = {r1, r2, r3}
    None = None
    WAIT_FOR_OTP_SECONDS = 1
    HASH_EXPIRE_AFTER_SECONDS = 1
    TRANSACTION_EXPIRE_AFTER_SECONDS = 2
    NUM_OTP_RETRIES = 1
    MaxTime = 2
SYMMETRY Symmetry
INVARIANTS
    StoredOtpCoherent
    SignatureNeedsDeliveredOtp
    SignatureWithinOtpLifetime
PROPERTIES
    ExpiredStaysGone
    RefinesVerifiedAnswer
CHECK_DEADLOCK FALSE
