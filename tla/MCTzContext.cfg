SPECIFICATION Spec
CONSTANTS
    THREAD_NUM_MAX = 2
    NSID_MGR_THREAD_ID_MAX = 5
    Thread = {t1, t2, t3}
    Idle = Idle
    NoThread = NoThread
    ThreadName <- MCThreadName
INVARIANTS
    RunningIdentity
    TableMatchesThreads
    ContextHeldForLiveThreads
PROPERTIES
    LeakOnlyWhenTableFull
    MapSpec
