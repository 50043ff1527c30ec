SPECIFICATION Spec
CONSTANTS
    NrSuites = 2
    MaxTests = 2
INVARIANTS
    VerdictSound
    FailedCountExact
CHECK_DEADLOCK FALSE
