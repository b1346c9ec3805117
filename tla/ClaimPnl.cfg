SPECIFICATION Spec
CONSTANTS
    a = a
    b = b
    None = None
    Instruments <- MCInstruments
    StartingBalance = 10
    FillReports <- MCFillReports
    Marks = {1, 4}
    MaxCalls = 4
INVARIANT
    TotalPnlIsRealized
CHECK_DEADLOCK FALSE
