SPECIFICATION FairSpec
CONSTANTS
    Requests = {r1}
    Attachments = {a1, a2}
    Recipients = {c1, c2}
    Forms <- MCForms
    maxRetryCount = 2
    Admin = admin
    None = None
INVARIANTS
    OutcomesAgree
    ThanksAreDue
    AuthTypeWasChecked
    BouncedMeansAdminMail
PROPERTIES
    EverythingEnds
    ImplementsReceipt
