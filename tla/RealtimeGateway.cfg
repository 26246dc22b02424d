CONSTANTS
    Clients = {c1}
    Calls = {k1}
    Readers = {c1, k1}
    MaxQuotes = 2
    MaxLosses = 1
    MaxCrashes = 1
SPECIFICATION FairSpec
INVARIANTS
    TypeOK
    AnswerIsFresh
    StoreAgrees
    NothingMissed
PROPERTIES
    Served
