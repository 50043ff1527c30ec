SPECIFICATION Spec
CONSTANTS
    MaxHandles = 3
    MaxBusy = 0
    Broken = {"id not translated"}
INVARIANTS
    ClientIdTested
CHECK_DEADLOCK FALSE
