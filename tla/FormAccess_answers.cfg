CONSTANTS
    MaxLength = 3
    MaxNumber = 3
    LastDay = 1
    MaxRows = 3
    MaxTasks = 2
    None = None
    Files <- SomeFiles
    Forms <- SomeForms
    Users = {"ann", "ben"}
    CorpUser <- SomeCorpUsers
    Persons <- SomePersons
    spCookieMaxAge = 1
    spCookieMaxAgePreserved = 2
    cpCookieMaxAge = 1
    MaxTime = 1
    MaxElsewhere = 1
SPECIFICATION FairSpec
INVARIANTS
    TakenAsDisplayed
    ToldTruthfully
PROPERTIES
    ShownAgainIsBlank
    NeverTurnedAway
    SubmissionEnds
CHECK_DEADLOCK FALSE
