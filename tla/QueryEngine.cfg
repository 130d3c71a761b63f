CONSTANTS
    OrderTables <- MCOrderTables
    ShipmentTables <- MCShipmentTables
    Limits <- MCLimits
    Caps <- MCCaps
    Threshold = 5000
    Buckets = 2
    MicrosPerDay = 3
    MaxPasses = 3
    Rows = {1, 2, 3}
    Accumulators = {a1, a2}
    Limit = 9999
    Null = Null
    Unlimited = Unlimited
    Width = 6
    Cycle = 13
    Lengths <- MCLengths
    Offsets = {0, 3}
    Constants <- MCConstants
    RowCounts = {0, 1, 2, 5, 7}
    BatchShapes <- MCBatchShapes
    ListShapes <- MCListShapes
    DecoderBatches = {1, 2, 3, 5}
    AmountThreshold = 4
SPECIFICATION EngineSpec
INVARIANT QueriesAgree
INVARIANT CapIsAPrefix
INVARIANT RangeIsOfTheWholeGroup
INVARIANT EveryPathAgrees
INVARIANT NoChildLeftBehind
PROPERTY AppReturns
CHECK_DEADLOCK FALSE
