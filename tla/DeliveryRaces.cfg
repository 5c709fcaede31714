SPECIFICATION Spec
CONSTANTS
    status_changed = status_changed
    commented = commented
    unlinked = unlinked
    legacy_created = legacy_created
    client = client
    home = home
    desk = desk
    Clients = {client}
    Chats = {home, desk}
    NoChat = NoChat
    Null = Null
    Payload <- MCPayload
    Legacy <- MCLegacy
    Events = {status_changed}
    Workers = {w1, w2}
    Reliable = {}
    MaxAttempts = 2
    LeaseSeconds = 2
    BackoffCap = 2
    RetryAfterCap = 3
    RetryAfters <- MCRetryAfters
    MaxReplays = 1
SYMMETRY WorkerSymmetry
INVARIANTS
    TypeOK
    OneLiveLease
    DuplicatesNeedALostResult
    DeadForAReason
    RetryWithinHorizon
PROPERTIES
    KeepsThePromise
    OnlyLatestClaimDecides
