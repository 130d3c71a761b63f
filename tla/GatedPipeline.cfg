CONSTANTS
    Producers <- MCProducers
    Contracts <- MCContracts
    Nesting = 6
    MaxDiffs = 2
    MaxPathDepth = 3
    MaxDepth = 3
    MaxItems = 2
    Levels = 12
    Batches <- MCBatches
    Run <- MCRun
    Arrivals <- MCArrivals
    Slots = 2
    Items = 2
    N = 2
    Sql = {1}
    MaxCount = 2
    MaxRows = 2
SPECIFICATION GatedSpec
INVARIANTS
    VerdictIsReadability
    PoliciesNest
    RefusalNamesAField
    SinkNeedsNoCheckOfItsOwn
    SinkAndReportAgree
    ValidatorReadsWhatIsVisible
    ErrorLocatesTheFailure
CHECK_DEADLOCK FALSE
