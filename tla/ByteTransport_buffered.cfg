\* A counted channel of two: the producer can run ahead of the writer.
CONSTANTS
    Capacity = 2
    Limit = 3
    MaxWord = 4
    BatchSizes = {1, 2, 4, 5}
    MaxSends = 3
    Cancellable = TRUE
SPECIFICATION FairSpec
INVARIANTS
    AccountIsExact
    AnswersAreTrue
PROPERTIES
    ImplementsChannel
    EverythingReturns
