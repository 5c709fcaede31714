SPECIFICATION Spec
CONSTANTS
    Events = {1, 2}
    malformed = malformed
    mistyped = mistyped
    Junk = {mistyped}
    IdOf <- MCIdOf
    Publishers = {p1, p2}
    Consumers = {c1, c2}
    BatchLimit = 2
    MaxFaults = 2
    Null = Null
SYMMETRY ProcessSymmetry
CHECK_DEADLOCK FALSE
INVARIANTS
    NoEventLost
    NoJunkLost
    OnlyJunkQuarantined
    InboxNeverCollides
    DuplicatesNeedAFailure
