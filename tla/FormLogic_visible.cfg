SPECIFICATION FairLogicSpec
CONSTANTS
    f1 = f1
    f2 = f2
    f3 = f3
    deleted = deleted
    other = other
    Empty = Empty
    Missing = Missing
    FieldIds <- MCFieldIds
    Answers <- MCAnswers
    RuledForms <- MCForms
    Submissions <- MCSubmissions
INVARIANTS
    ReturnsLeastVisible
    ClearingIsStable
    PreventedForVisibleReason
PROPERTIES
    Returns
CHECK_DEADLOCK FALSE
