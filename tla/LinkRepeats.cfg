SPECIFICATION FairSpec
CONSTANTS
    ann = ann
    bob = bob
    home = home
    work = work
    Users = {ann, bob}
    Chats = {home, work}
    Null = Null
    Updates <- MCRepeats
    Legacy <- MCLegacy
    Sessions = {s1, s2}
    TTL = 1
    MaxCodes = 2
INVARIANTS
    OneEffectPerUpdate
    AnswersAreFinal
    TicketsNeedAConfirmedChat
PROPERTIES
    EveryUpdateAnswered
