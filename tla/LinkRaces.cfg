SPECIFICATION Spec
CONSTANTS
    ann = ann
    bob = bob
    home = home
    work = work
    Users = {ann, bob}
    Chats = {home, work}
    Null = Null
    Updates <- MCRacingCodes
    Legacy <- MCLegacy
    Sessions = {s1, s2, s3}
    TTL = 1
    MaxCodes = 2
CHECK_DEADLOCK FALSE
SYMMETRY SessionSymmetry
INVARIANTS
    CodeUsedOnce
    KeysNeverCollide
    NoDeadlock
PROPERTIES
    UpdatesActAtOnce
