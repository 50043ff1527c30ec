SPECIFICATION FairSpec
CONSTANTS
    MaxHandles = 3
    MaxBusy = 2
    Broken = {"none", "no output", "wrong rhandle", "grants refused", "connects stateless", "status lost", "no version", "wrong input"}
INVARIANTS
    VerdictExact
    BrokenFound
    LeakOnlyByFailure
PROPERTY
    SuitesEnd
CHECK_DEADLOCK FALSE
