SPECIFICATION FairPageSpec
CONSTANTS
    TransactionIds = {t1}
    FieldIds = {f1, f2}
    TheField = f1
    Empty = empty
    Answers = {empty,a1,a2}
    Otps = {o1}
    Requests = {r1, r2, r3}
    None = None
    Required = FALSE
    DISABLED_SECONDS = 0
    WAIT_FOR_OTP_SECONDS = 1
    HASH_EXPIRE_AFTER_SECONDS = 1
    TRANSACTION_EXPIRE_AFTER_SECONDS = 1
    NUM_OTP_RETRIES = 2
    MaxTime = 0
INVARIANTS
    AcceptedIsVerified
    ValidInputIsSigned
PROPERTIES
    EveryCallEnds
CHECK_DEADLOCK FALSE
