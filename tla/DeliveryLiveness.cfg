SPECIFICATION FairSpec
CONSTANTS
    status_changed = status_changed
    commented = commented
    unlinked = unlinked
    legacy_created = legacy_created
    client = client
    home = home
    desk = desk
    Clients = {client}
    Chats = {home, desk}
    NoChat = NoChat
    Null = Null
    Payload <- MCPayload
    Legacy <- MCLegacy
    Events = {status_changed}
    Workers = {w1, w2}
    Reliable = {w1}
    MaxAttempts = 2
    LeaseSeconds = 1
    BackoffCap = 1
    RetryAfterCap = 2
    RetryAfters <- MCRetryAfters
    MaxReplays = 1
PROPERTIES
    KeepsThePromiseInTime
