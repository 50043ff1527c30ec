SPECIFICATION FairSpec
CONSTANTS
    Task = {a, b, c}
    NoTask = NoTask
    MailboxThread = MailboxThread
    NUM_MAILBOX_QUEUE_SLOT = 2
    MaxTx = 6
INVARIANTS
    SlotForLockHolder
    OwnSlot
    NoLostWakeup
PROPERTIES
    CallReturns
    CallSpec
