\* No symmetry: the run checks a liveness property.
CONSTANTS
    Runs = {r1, r2, r3}
    Cancellers = {c1, c2}
SPECIFICATION TokenFairSpec
INVARIANTS
    NoRunMissed
PROPERTIES
    RegistryServesRuns
