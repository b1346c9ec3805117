SPECIFICATION ExtSpec
CONSTANTS
    a = a
    b = b
    None = None
    Instruments <- MCInstruments
    MaxOrders = 2
    ClockStart = 0
    MaxTime = 1
    Latency = 1
    FeeSchedule <- MCFeeSchedule
    TakerOverride = 3
    DynamicFees <- MCDynamicFees
    Caps <- MCCaps
    DataPayloads <- MCDataPayloads
    StartingBalance = 10
    Payloads <- MCPayloads
    OrderSpecs <- MCOrderSpecs
INVARIANTS
    OrderConservation
    SettlementConcludes
    OpenAtEndWasBuffered
PROPERTIES
    TakersPayTheLatestRate
CHECK_DEADLOCK FALSE
