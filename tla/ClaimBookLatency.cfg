SPECIFICATION Spec
CONSTANTS
    a = a
    None = None
    Instruments <- MCInstruments
    MaxOrders = 2
    ClockStart = 0
    MaxTime = 1
    Latency = 1
    FeeSchedule <- MCFeeSchedule
    TakerOverride = None
    DynamicFees = {}
    StartingBalance = 10
    Payloads <- MCPayloads
    OrderSpecs <- MCOrderSpecs
PROPERTIES
    NoExecutionBeforeActive
CHECK_DEADLOCK FALSE
