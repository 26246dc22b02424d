\* Two handlers overlap, two sessions, a second code replaces the first.
CONSTANTS
    a = a
    b = b
    s1 = s1
    s2 = s2
    NoSession = NoSession
    Calls = {a, b}
    Sessions = {s1, s2}
    OTP_MAX_ATTEMPTS = 2
    MaxCodes = 2
SPECIFICATION Spec
SYMMETRY Symmetry
INVARIANTS
    TypeOK
    WalletWithAccount
    EndedForGood
PROPERTIES
    SignupAsConfirmed
    FirstAccountStays
