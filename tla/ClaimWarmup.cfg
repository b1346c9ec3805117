SPECIFICATION RunSpec
CONSTANTS
    a = a
    b = b
    x = x
    None = None
    Instruments <- MCInstruments
    IdRank <- MCIdRank
    MaxOrders = 2
    MaxBatch = 2
    ClockStart = 1
    WarmupStart = None
    TimeStart = 1
    MaxTime = 2
    Latency = 1
    FeeSchedule <- MCFeeSchedule
    TakerOverride = None
    DynamicFees = {}
    StartingBalance = 10
    Payloads <- MCPayloads
    OrderSpecs <- MCOrderSpecs
    StrayOrders <- MCStrayOrders
    Requests <- MCRequests
INVARIANTS
    NoDecisionBeforeStart
CHECK_DEADLOCK FALSE
