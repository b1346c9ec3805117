SPECIFICATION Spec
CONSTANTS
    a = a
    None = None
    Instruments <- MCInstruments
    MaxOrders = 2
    ClockStart = 0
    MaxTime = 2
    Latency = 1
    FeeSchedule <- MCFeeSchedule
    TakerOverride = None
    DynamicFees = {}
    StartingBalance = 10
    Payloads <- MCPayloads
    OrderSpecs <- MCOrderSpecs
PROPERTIES
    NoFillsWhileHalted
CHECK_DEADLOCK FALSE
