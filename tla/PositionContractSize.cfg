\* One position, two updates at a time.
CONSTANTS
    p1 = p1
    p2 = p2
    c1 = c1
    c2 = c2
    c3 = c3
    m1 = m1
    m2 = m2
    NoLevel = NoLevel
    NoPosition = NoPosition
    Positions = {p1}
    Shorts = {}
    Closers = {c1, c2}
    Updaters = {m1, m2}
    Prices = {1, 2}
    StartPrice = 2
    Levels = {1}
    MaxTicks = 1
    MaxCrashes = 1
SPECIFICATION Spec
INVARIANTS
    ContractSizeIsPatched
