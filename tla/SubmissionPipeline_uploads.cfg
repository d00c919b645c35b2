SPECIFICATION Spec
CONSTANTS
    Requests = {r1}
    Attachments = {a1, a2}
    Recipients = {c1}
    Forms <- MCForms
    maxRetryCount = 1
    Admin = admin
    None = None
INVARIANT
    StoredAttachmentsUploaded
