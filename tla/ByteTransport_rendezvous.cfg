\* A rendezvous channel: a send returns once its message is taken.
CONSTANTS
    Capacity = 0
    Limit = 3
    MaxWord = 4
    BatchSizes = {1, 2, 4, 5}
    MaxSends = 3
    Cancellable = TRUE
SPECIFICATION FairSpec
INVARIANTS
    NoOneStuck
    AnswersAreTrue
PROPERTIES
    EverythingReturns
