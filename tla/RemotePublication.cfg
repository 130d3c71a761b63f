CONSTANTS
    MaxRuns = 3
    MaxStrange = 1
    Variety = 2
    Ranges = 2
SPECIFICATION Spec
INVARIANTS
    RecordIsTrue
    ReadIsWhatWasCompleted
    ResultIsTrue
