CONSTANTS
    Configs <- MCConfigs
    Sizes = {1, 2, 4}
SPECIFICATION FairSpec
INVARIANTS
    ResultIsTrue
    WorkIsBounded
PROPERTIES
    Terminates
