SPECIFICATION FairSpec
CONSTANTS
    Task <- MCTask
    NUM_MAILBOX_QUEUE_SLOT = 2
    RtosThreads = 2
    LightRounds = 1
    HeavyRounds = 1
    OooFactor = 2
INVARIANTS
    ChildrenWithinParent
    StatsExactAtReport
    VerdictExact
PROPERTIES
    SuiteFinishes
