SPECIFICATION Spec
CONSTANTS
    status_changed = status_changed
    commented = commented
    unlinked = unlinked
    legacy_created = legacy_created
    client = client
    home = home
    desk = desk
    Clients = {client}
    Chats = {home, desk}
    NoChat = NoChat
    Null = Null
    Payload <- MCPayload
    Legacy <- MCLegacy
    Events = {commented, unlinked, legacy_created}
    Workers = {w1, w2}
    Reliable = {}
    MaxAttempts = 1
    LeaseSeconds = 1
    BackoffCap = 1
    RetryAfterCap = 1
    RetryAfters <- MCNoRetryAfter
    MaxReplays = 0
SYMMETRY WorkerSymmetry
INVARIANTS
    NoStaleChat
PROPERTIES
    SettledStaysSettled
