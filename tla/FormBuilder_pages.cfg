SPECIFICATION MCSpec
CONSTANTS
    ada = ada
    bo = bo
    show = show
    form = form
    name = name
    docs = docs
    None = None
    Failures = {"INTERNAL_SERVER_ERROR"}
    Requests = {r1, r2}
    Users <- MCUsers
    Whitelisted <- MCUsers
    OriginalForms = {form}
    OriginalFields = {name, docs}
    Rules = {show}
    InitialForms <- MCInitialForms
    Calls = {}
    editor = ada
    theForm = form
    AttachmentSizes = {3, 7}
    attachmentsMax = 7
    fieldsOf <- MCFieldsOf
    Positions = {1}
    Collaborators = {bo}
    MaxWaiting = 1
    Absent = Absent
    MaxLength = 3
    MaxNumber = 3
    LastDay = 1
    MaxRows = 3
    Files = {}
    FieldTypes = {"section", "statement", "email", "mobile", "homeno",
        "number", "decimal", "image", "textfield", "textarea", "dropdown",
        "yes_no", "checkbox", "radiobutton", "attachment", "date", "rating",
        "nric", "table"}
    one = one
    two = two
    three = three
    OptionTexts <- MCOptionTexts
    TypedOptions = {"", one}
    Limits = {0, 2, 3}
    Images <- MCImages
    Modes = {"email", "encrypt"}
    MaxOptions = 2
    MaxColumns = 2
INVARIANTS
    FieldInOrder
    PageInOrder
PROPERTIES
    SettingsOnPurpose
SYMMETRY Symmetry
CONSTRAINT Few
CHECK_DEADLOCK FALSE
