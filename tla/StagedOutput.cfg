CONSTANTS
    Owners = {o1, o2, o3}
    Old = Old
SPECIFICATION StagingSpec
INVARIANTS
    SurvivesCrashes
    StagingResultIsTrue
