SPECIFICATION FairSpec
CONSTANTS
    Events = {1, 2}
    malformed = malformed
    mistyped = mistyped
    Junk = {malformed}
    IdOf <- MCIdOf
    Publishers = {p1}
    Consumers = {c1, c2}
    BatchLimit = 1
    MaxFaults = 1
    Null = Null
CHECK_DEADLOCK FALSE
PROPERTIES
    QueueDrains
