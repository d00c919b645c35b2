SPECIFICATION OrderlySpec
CONSTANTS
    TransactionIds = {t1}
    FieldIds = {f1}
    TheField = f1
    Empty = empty
    Answers = {empty, a1, a2}
    Otps = {o1}
    Requests = {r1, r2, r3, r4, r5}
    None = None
    Required = FALSE
    DISABLED_SECONDS = 1
    WAIT_FOR_OTP_SECONDS = 1
    HASH_EXPIRE_AFTER_SECONDS = 1
    TRANSACTION_EXPIRE_AFTER_SECONDS = 2
    NUM_OTP_RETRIES = 2
    MaxTime = 1
SYMMETRY Symmetry
INVARIANTS
    OtpLimits
    TickMeansVerified
CHECK_DEADLOCK FALSE
