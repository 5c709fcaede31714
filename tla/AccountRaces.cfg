SPECIFICATION Spec
CONSTANTS
    admin = admin
    Admin = Admin
    desk = desk
    known = known
    guessed = guessed
    Spellings = {admin, Admin, desk}
    Lower <- MCLower
    Passwords = {known, guessed}
    Sessions = {s1, s2}
    Seeders = {seed}
    Staff <- MCStaff
    Null = Null
SYMMETRY SessionSymmetry
INVARIANTS
    OneAccountPerEmail
    AnswersHold
    SeedPrepares
PROPERTIES
    AccountsAreKept
