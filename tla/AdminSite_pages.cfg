SPECIFICATION MCSpec
CONSTANTS
    ada = ada
    bo = bo
    eve = eve
    show = show
    form = form
    other = other
    name = name
    age = age
    None = None
    Failures = {"CLOSED"}
    Requests = {r1, r2}
    Users <- MCUsers
    Whitelisted <- MCWhitelisted
    OriginalForms = {form, other}
    OriginalFields = {name, age}
    Rules <- MCRules
    InitialForms <- MCInitialForms
    Calls <- MCCalls
    owner = ada
    Elsewhere <- MCElsewhere
    taxes = taxes
    leave = leave
    parking = parking
    Examples = {taxes, leave, parking}
    agencyOf <- Agencies
    ownAgency = "own"
    SearchTerms = {"tax"}
    textScore <- Scores
    PAGE_SIZE = 2
    MIN_SUB_COUNT = 1
    Today = 41
    InitialSubmissions <- SomeSubmissions
    Secondaries = {s1, s2}
    MaxQueries = 2
    MaxSubmissions = 7
    Null = Null
    singpass = singpass
    corppass = corppass
    EsrvcIds = {singpass, corppass}
    BilledForms = {taxes}
    Dates <- Days
    InitialLogins <- SomeLogins
    Chosen = {0, 1}
    MaxBillCalls = 2
    MaxLogins = 6
    Missing = Missing
    first = first
    second = second
    preview = preview
    Visitors = {first, second, preview}
    Previewers = {preview}
    Ratings = {4}
    Unset = Unset
SYMMETRY Symmetry
CONSTRAINT Few
INVARIANTS
    WorkspaceInOrder
    ShownAsRanked
    BillIsRight
    FeedbackTold
PROPERTIES
    KeptUnlessOverwritten
    EditsAsPromised
CHECK_DEADLOCK FALSE
