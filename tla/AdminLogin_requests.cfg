SPECIFICATION LoginSpec
CONSTANTS
    Emails = {e1, e2, e3}
    Whitelisted = {e1, e2}
    Otps = {o1, o2}
    Browsers = {b1}
    Requests = {r1, r2, r3, r4}
    None = None
    MAX_OTP_ATTEMPTS = 1
    otpLifeSpan = 1
    MaxTime = 1
SYMMETRY Symmetry
INVARIANTS
    AttemptLimitExact
    SessionHadOtp
    LoginInOrder
CHECK_DEADLOCK FALSE
CONSTRAINT Few

