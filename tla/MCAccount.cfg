SPECIFICATION Spec
CONSTANTS
    a = a
    b = b
    None = None
    Instruments <- MCInstruments
    StartingBalance = 10
    FillReports <- MCFillReports
    Marks = {1, 4}
    MaxCalls = 4
INVARIANTS
    BooksBalance
    PnlIsRealizedOnceFlat
    TripsKnowTheBasis
    WinRateIsHonest
PROPERTIES
    TradesAreFair
CHECK_DEADLOCK FALSE
