CONSTANTS
    Sockets = {1, 2}
    NoSocket = 0
    MaxDelay = 2
    Holidays <- MCHolidays
    Instants <- MCInstants
SPECIFICATION MarketFairSpec
INVARIANTS
    MarketTypeOK
    OneFeed
    AnnouncedOpenIsNext
PROPERTIES
    Driven
