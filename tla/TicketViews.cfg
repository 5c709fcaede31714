SPECIFICATION Spec
CONSTANTS
    Kinds = {"assign", "transition", "comment", "read", "list"}
    MaxAnswers = 1
    Nobody = Nobody
    Tickets = {t1}
    Users = {client, operator}
    Staff = {operator}
    Active = {client, operator}
    Requests = {r1, r2, r3}
SYMMETRY RequestSymmetry
CHECK_DEADLOCK FALSE
INVARIANTS
    EventsTellTheState
    ViewsExplainThemselves
    OneWinnerPerVersion
    AnswersShowTheChange
    TotalCoversPage
