SPECIFICATION EmaSpec
CONSTANTS
    a = a
    b = b
    None = None
    Instruments <- MCInstruments
    IdRank <- MCIdRank
    FastPeriod = 2
    SlowPeriod = 3
    Units = 2
    MaxOrders = 5
    MaxBatch = 1
    ClockStart = 0
    WarmupStart = 0
    TimeStart = 1
    MaxTime = 6
    Latency = 2
    FeeSchedule <- MCFeeSchedule
    TakerOverride = 5
    DynamicFees = {}
    StartingBalance = 10
    Payloads <- MCPayloads
    OrderSpecs <- MCOrderSpecs
    StrayOrders = {}
    Requests <- MCRequests
INVARIANTS
    LongOnlyAbove
    AccountFollowsFlag
    AveragesAreOfTheRun
    ExecutedAtTheNextOpen
CHECK_DEADLOCK FALSE
