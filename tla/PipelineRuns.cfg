SPECIFICATION FairSpec
CONSTANTS
    malformed = malformed
    client = client
    desk = desk
    Clients = {client}
    Chats = {desk}
    NoChat = NoChat
    Null = Null
    Events = {1}
    Junk = {malformed}
    IdOf <- MCIdOf
    Publishers = {p1}
    BatchLimit = 1
    MaxFaults = 1
    Payload <- MCInternal
    Workers = {w1}
    Reliable = {w1}
    MaxAttempts = 1
    LeaseSeconds = 1
    BackoffCap = 1
    RetryAfterCap = 0
    RetryAfters <- MCRetryAfters
    MaxReplays = 0
INVARIANTS
    NobodyForgotten
PROPERTIES
    DeliveryNeedsNoBroker
    ConsumingGoesOn
    EveryEventSettles
