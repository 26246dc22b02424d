\* Two polls that overlap, a threshold of three.
CONSTANTS
    a = a
    b = b
    Polls = {a, b}
    FAILURE_THRESHOLD = 3
    MaxPrice = 2
SPECIFICATION FairSpec
INVARIANTS
    TypeOK
    OneWalk
PROPERTIES
    FallbackEnds
    FallbackBegins
    LivePricesReturn
    StopEndsAll
