SPECIFICATION Spec
CONSTANTS
    Events = {1}
    malformed = malformed
    mistyped = mistyped
    Junk = {malformed}
    IdOf <- MCIdOf
    Publishers = {p1}
    Consumers = {c1}
    BatchLimit = 1
    MaxFaults = 1
    Null = Null
CHECK_DEADLOCK FALSE
INVARIANTS
    AttemptsReflectConfirms
