----------------------------- MODULE NsMailbox -----------------------------
(***************************************************************************)
(* The non-secure mailbox on an RTOS: lib/multi_core/                      *)
(* tfm_ns_mailbox_rtos_api.c over OsWrapper and the statistics of          *)
(* lib/multi_core/tfm_ns_mailbox_test.c, under the client call of          *)
(* tfm_ns_mailbox.c or tfm_ns_mailbox_thread.c, which belong to TF-M and   *)
(* are modelled from how these files serve them.                           *)
(*                                                                         *)
(* In the build without a mailbox thread a task that makes a PSA client    *)
(* call takes the counting semaphore, an empty slot, updates the           *)
(* statistics, posts the slot, waits for its thread flag, reads the reply, *)
(* empties the slot and gives the semaphore back.  In the build with one   *)
(* the task sends its request to a message queue, trying again at once     *)
(* while the queue is full, and waits; the mailbox thread takes requests   *)
(* from the queue and posts them.  Which build it is shows in the handles: *)
(* ns_lock or mq is NULL.  The secure core answers posted slots in any     *)
(* order and raises an interrupt; its handler wakes the owners of all the  *)
(* slots replied to.                                                       *)
(*                                                                         *)
(* tfm_ns_mailbox_os_spin_lock disables interrupts on the one non-secure   *)
(* core, so a section between spin_lock and spin_unlock is one step.       *)
(***************************************************************************)
EXTENDS OsWrapper, FiniteSets

CONSTANTS
    Task,
    NoTask,
    MailboxThread,
    NUM_MAILBOX_QUEUE_SLOT

ASSUME TaskAssumption ==
    IsFiniteSet(Task) /\ NoTask \notin Task /\ MailboxThread \notin Task \cup {NoTask}
ASSUME SlotAssumption == NUM_MAILBOX_QUEUE_SLOT \in Nat \ {0}

VARIABLES
    ns_lock,        \* the semaphore
    mq,             \* the mailbox thread's message queue
    req,            \* external: the request that the mailbox thread works on
    queue,          \* external: per slot [state, owner]
    irq,            \* external: the mailbox interrupt is pending
    flags,          \* the thread flags set for each task
    mbx,            \* where each thread is in a client call
    my_slot,        \* the slot each thread uses
    nr_empty,       \* tfm_ns_mailbox_tx_stats_update's local count
    nr_tx,
    nr_used_slots

osVars == <<ns_lock, mq, req, flags>>
queueVars == <<queue, irq, my_slot>>
statVars == <<nr_empty, nr_tx, nr_used_slots>>
mbxVars == <<osVars, queueVars, statVars, mbx>>

Thread == Task \cup {MailboxThread}
MbxSlot == 0 .. NUM_MAILBOX_QUEUE_SLOT - 1
NoSlot == -1
MAX_SEMAPHORE_COUNT == NUM_MAILBOX_QUEUE_SLOT

\* Mutant of MAILBOX_THREAD_FLAG: the MSB is set.
Mut_FlagMsb == {17, 19, 22, 23, 24, 25, 26, 27, 28, 30, 31}

\* 0x5FCA0000, whose MSB must be 0.
MAILBOX_THREAD_FLAG == {17, 19, 22, 23, 24, 25, 26, 27, 28, 30}

EmptySlots == {s \in MbxSlot : queue[s].state = "empty"}

Goto(t, label) == mbx' = [mbx EXCEPT ![t] = label]

-----------------------------------------------------------------------------
\* tfm_ns_mailbox_os_lock_init and tfm_ns_mailbox_os_mq_create
lock_init == os_wrapper_semaphore_create(MAX_SEMAPHORE_COUNT, MAX_SEMAPHORE_COUNT)
mq_create == os_wrapper_msg_queue_create(NUM_MAILBOX_QUEUE_SLOT)

\* tfm_ns_mailbox_init, before any task exists, calls one of them and
\* tfm_ns_mailbox_tx_stats_init.
MailboxInit ==
    /\ \/ ns_lock = lock_init /\ mq = NULL
       \/ ns_lock = NULL /\ mq = mq_create
    /\ req = NoTask
    /\ queue = [s \in MbxSlot |-> [state |-> "empty", owner |-> NoTask]]
    /\ irq = FALSE
    /\ flags = [t \in Task |-> {}]
    /\ mbx = [t \in Thread |-> IF t = MailboxThread THEN "receive" ELSE "idle"]
    /\ my_slot = [t \in Thread |-> NoSlot]
    /\ nr_empty = [t \in Thread |-> 0]
    /\ nr_tx = 0
    /\ nr_used_slots = 0

\* Mutant of lock_acquire: the task does not wait for the semaphore.
Mut_NoWait(t) ==
    /\ ns_lock # NULL /\ mbx[t] = "idle"
    /\ Goto(t, "slot")
    /\ UNCHANGED <<osVars, queueVars, statVars>>

\* tfm_ns_mailbox_os_lock_acquire at the start of a client call: the task gets
\* a token or joins the waiters, forever if need be.
lock_acquire(t) ==
    LET r == os_wrapper_semaphore_acquire(ns_lock, t, OS_WRAPPER_WAIT_FOREVER)
    IN  /\ ns_lock # NULL /\ mbx[t] = "idle"
        /\ ns_lock' = r.obj
        /\ Goto(t, IF r.ret = Blocked THEN "lock" ELSE "slot")
        /\ UNCHANGED <<mq, req, flags, queueVars, statVars>>

\* tfm_ns_mailbox_os_mq_send at the start of a client call, and again at once
\* while the queue is full.
mq_send(t) ==
    LET r == os_wrapper_msg_queue_send(mq, t)
    IN  /\ mq # NULL /\ mbx[t] \in {"idle", "send"}
        /\ mq' = r.obj
        /\ Goto(t, IF r.ret = OS_WRAPPER_SUCCESS THEN "wait" ELSE "send")
        /\ UNCHANGED <<ns_lock, req, flags, queueVars, statVars>>

\* tfm_ns_mailbox_os_mq_receive in the mailbox thread.
mq_receive ==
    LET r == os_wrapper_msg_queue_receive(mq)
    IN  /\ mq # NULL /\ mbx[MailboxThread] = "receive"
        /\ r.ret = OS_WRAPPER_SUCCESS
        /\ mq' = r.obj
        /\ req' = Head(mq.msgs)
        /\ Goto(MailboxThread, "slot")
        /\ UNCHANGED <<ns_lock, flags, queueVars, statVars>>

\* External: the client call, or the mailbox thread, takes an empty slot; the
\* mailbox thread waits for one.
acquire_empty_slot(t) ==
    /\ mbx[t] = "slot"
    /\ \E s \in EmptySlots :
          /\ \A r \in EmptySlots : s <= r
          /\ queue' = [queue EXCEPT ![s].state = "held"]
          /\ my_slot' = [my_slot EXCEPT ![t] = s]
    /\ Goto(t, "stats_read")
    /\ UNCHANGED <<osVars, irq, statVars>>

\* tfm_ns_mailbox_tx_stats_update, first locked section: the empty slots are
\* read, and counted after the lock is released.
stats_update_read(t) ==
    /\ mbx[t] = "stats_read"
    /\ nr_empty' = [nr_empty EXCEPT ![t] = Cardinality(EmptySlots)]
    /\ Goto(t, "stats_add")
    /\ UNCHANGED <<osVars, queueVars, nr_tx, nr_used_slots>>

\* Second locked section: the count, stale by now, is added.
stats_update_add(t) ==
    /\ mbx[t] = "stats_add"
    /\ nr_used_slots' = nr_used_slots + (NUM_MAILBOX_QUEUE_SLOT - nr_empty[t])
    /\ nr_tx' = nr_tx + 1
    /\ nr_empty' = [nr_empty EXCEPT ![t] = 0]
    /\ Goto(t, "post")
    /\ UNCHANGED <<osVars, queueVars>>

\* tfm_ns_mailbox_tx_stats_reinit
stats_reinit ==
    /\ nr_tx' = 0 /\ nr_used_slots' = 0
    /\ UNCHANGED <<osVars, queueVars, nr_empty, mbx>>

\* tfm_ns_mailbox_os_get_task_handle, in the task or sent with its request.
TaskHandle(t) == IF t = MailboxThread THEN req ELSE t

\* External: the message and its owner are filled in and the slot is posted to
\* the secure core.
post(t) ==
    LET owner == TaskHandle(t)
    IN  /\ mbx[t] = "post"
        /\ queue' = [queue EXCEPT ![my_slot[t]] = [state |-> "pend", owner |-> owner]]
        /\ my_slot' = [my_slot EXCEPT ![t] = NoSlot, ![owner] = my_slot[t]]
        /\ Goto(t, IF t = MailboxThread THEN "receive" ELSE "wait")
        /\ req' = NoTask
        /\ UNCHANGED <<ns_lock, mq, flags, irq, statVars>>

\* External: the secure core completes a request and interrupts.
secure_reply(s) ==
    /\ queue[s].state = "pend"
    /\ queue' = [queue EXCEPT ![s].state = "replied"]
    /\ irq' = TRUE
    /\ UNCHANGED <<osVars, my_slot, statVars, mbx>>

\* Mutant of wake: another flag than the one the task waits for is set.
Mut_OtherFlag(t) == os_wrapper_thread_set_flag_isr(flags[t], {0}).obj

\* tfm_ns_mailbox_os_wake_task_isr
wake(t) == os_wrapper_thread_set_flag_isr(flags[t], MAILBOX_THREAD_FLAG).obj

\* External: the interrupt handler wakes the owner of every slot replied to so far.
wake_task_isr ==
    LET replied == {s \in MbxSlot : queue[s].state = "replied"}
        owners == {queue[s].owner : s \in replied}
    IN  /\ irq
        /\ irq' = FALSE
        /\ queue' = [s \in MbxSlot |->
                        IF s \in replied THEN [queue[s] EXCEPT !.state = "woken"] ELSE queue[s]]
        /\ flags' = [t \in Task |-> IF t \in owners THEN wake(t) ELSE flags[t]]
        /\ UNCHANGED <<ns_lock, mq, req, my_slot, statVars, mbx>>

\* Mutant of wait_reply: the flag stays set.
Mut_FlagNotCleared(t) ==
    /\ mbx[t] = "wait"
    /\ MAILBOX_THREAD_FLAG \subseteq flags[t]
    /\ Goto(t, "rx")
    /\ UNCHANGED <<osVars, queueVars, statVars>>

\* tfm_ns_mailbox_os_wait_reply: the task sleeps until its flag is set, which
\* the wait clears; whether the wait failed is not looked at.
wait_reply(t) ==
    LET r == os_wrapper_thread_wait_flag(flags[t], MAILBOX_THREAD_FLAG, OS_WRAPPER_WAIT_FOREVER)
    IN  /\ mbx[t] = "wait"
        /\ r.ret # Blocked
        /\ flags' = [flags EXCEPT ![t] = r.obj]
        /\ Goto(t, "rx")
        /\ UNCHANGED <<ns_lock, mq, req, queueVars, statVars>>

\* External: the reply is read and the slot is empty again.
rx_reply(t) ==
    /\ mbx[t] = "rx"
    /\ queue' = [queue EXCEPT ![my_slot[t]] = [state |-> "empty", owner |-> NoTask]]
    /\ my_slot' = [my_slot EXCEPT ![t] = NoSlot]
    /\ Goto(t, IF ns_lock = NULL THEN "idle" ELSE "unlock")
    /\ UNCHANGED <<osVars, irq, statVars>>

\* tfm_ns_mailbox_os_lock_release at the end of the client call.
lock_release(t) ==
    /\ mbx[t] = "unlock"
    /\ ns_lock' = os_wrapper_semaphore_release(ns_lock).obj
    /\ mbx' = [u \in Thread |->
                  IF u = t THEN "idle"
                  ELSE IF ns_lock.waiters # <<>> /\ u = Head(ns_lock.waiters) THEN "slot"
                  ELSE mbx[u]]
    /\ UNCHANGED <<mq, req, flags, queueVars, statVars>>

-----------------------------------------------------------------------------
\* The steps of a client call after its start.
CallStep(t) ==
    \/ acquire_empty_slot(t) \/ stats_update_read(t) \/ stats_update_add(t)
    \/ post(t) \/ wait_reply(t) \/ rx_reply(t) \/ lock_release(t)

\* A mailbox thread below the tasks' priority.
Mut_LowThread == [stack_size |-> 1024, priority |-> osPriorityNormal - 1]

\* main_ns.c's attributes of the mailbox thread; the tasks have the normal
\* priority.  A task that keeps sending does not block, so the mailbox thread
\* runs beside it only if its priority is no lower.
mailbox_thread_attr == [stack_size |-> 1024, priority |-> osPriorityNone]

MailboxThreadRuns ==
    (\E t \in Task : mbx[t] = "send") => EffectivePriority(mailbox_thread_attr) >= osPriorityNormal

ThreadStep == MailboxThreadRuns /\ (mq_receive \/ CallStep(MailboxThread))

\* The secure core and the interrupt.
PeerStep == (\E s \in MbxSlot : secure_reply(s)) \/ wake_task_isr

-----------------------------------------------------------------------------
(* Properties. *)

Using == {t \in Thread : my_slot[t] # NoSlot}

\* The semaphore keeps the queue from overflowing: a task that has it always
\* finds an empty slot, so that a client call never fails for lack of one.
SlotForLockHolder == (\E t \in Task : mbx[t] = "slot") => EmptySlots # {}

\* Threads in a call use different slots, and the reply a task goes on to read
\* is the reply to its own request.
OwnSlot ==
    /\ \A t, u \in Using : my_slot[t] = my_slot[u] => t = u
    /\ \A t \in Task : mbx[t] = "rx" =>
          t \in Using /\ queue[my_slot[t]] = [state |-> "woken", owner |-> t]

\* A task never sleeps through its reply: a request without a slot is in the
\* message queue or with the mailbox thread, when its slot has been handled the
\* task's flag is set, and while a slot waits to be handled the interrupt is
\* pending.
NoLostWakeup ==
    \A t \in Task : mbx[t] = "wait" =>
        IF t \notin Using THEN req = t \/ \E k \in 1 .. Len(mq.msgs) : mq.msgs[k] = t
        ELSE /\ queue[my_slot[t]].state = "woken" => MAILBOX_THREAD_FLAG \subseteq flags[t]
             /\ queue[my_slot[t]].state = "replied" => irq

=============================================================================
