CONSTANTS
    Ids = {p1, p2}
    Symbols <- MCSymbols
    Lots = {1, 4, 6}
    AllowedLeverage = {1, 5}
    Quotes <- MCQuotes
    InitialBalance = 9
    LotStep = 4
    Scale = 2
    Cent = 4
    NoRow = NoRow
    NoQuote = NoQuote
    NoCall = NoCall
SYMMETRY Symmetry
SPECIFICATION Spec
INVARIANT
    RowsExplainWallet
PROPERTY
    WorthWhatIsShown
