SPECIFICATION Spec
CONSTANTS
    PSA_MAX_IOVEC = 2
    BufferSize = 10
    Lengths = {0, 2}
    MaxVecs = 3
    Sids = {7}
    Types = {5}
    MaxHandle = 2
    MaxCalls = 3
    MaxFaults = 2
INVARIANTS
    NoOverrun
    HeapBalanced
    StopsOnlyOnFault
    ConnectionsAgree
PROPERTIES
    CallReturns
    RemoteSpec
CHECK_DEADLOCK FALSE
