SPECIFICATION Spec
CONSTANTS
    ThreadId = {1, 2, 3, 4, 5}
    Main = 0
    NUM_MAILBOX_QUEUE_SLOT = 2
    MaxTasks = 4
INVARIANTS
    MemorySuffices
    HaltExplained
    TaskWithinHelper
    LibspacePrivate
    ClibMutexExclusive
