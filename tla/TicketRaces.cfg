SPECIFICATION Spec
CONSTANTS
    Kinds = {"assign", "transition"}
    MaxAnswers = 0
    Nobody = Nobody
    Tickets = {t1}
    Users = {client, operator}
    Staff = {operator}
    Active = {client, operator}
    Requests = {r1, r2, r3, r4}
SYMMETRY RequestSymmetry
CHECK_DEADLOCK FALSE
INVARIANTS
    NoLostUpdate
    DisplayedOrderIsCommitOrder
PROPERTIES
    ActsLikeALedger
