----------------------------- MODULE OsWrapper -----------------------------
(***************************************************************************)
(* The RTOS wrapper, app_broker/os_wrapper_cmsis_rtos_v2.c, and the kernel *)
(* objects under it.  The kernel (CMSIS-RTOS2 as RTX implements it) is     *)
(* external: an object is a value, and a call gives the status it returns  *)
(* and the object it leaves, [status, obj], with status Blocked while the  *)
(* caller has to wait.  The wrapper turns that into [ret, obj].  The       *)
(* mailbox, the multi-core suite and the application's start are specified *)
(* with these operators, so that they meet the wrapper's error paths and   *)
(* not the kernel's.                                                       *)
(*                                                                         *)
(* os_wrapper_get_tick is left out: nothing modelled depends on the time.  *)
(***************************************************************************)
EXTENDS Integers, Sequences

osOK == 0
osErrorTimeout == -2
osErrorResource == -3
osErrorParameter == -4
Blocked == 1            \* not a status of the kernel: the call has not returned

osWaitForever == -1             \* 0xFFFFFFFF, as OS_WRAPPER_WAIT_FOREVER
OS_WRAPPER_WAIT_FOREVER == -1
OS_WRAPPER_DEFAULT_STACK_SIZE == -1
OS_WRAPPER_SUCCESS == 0
OS_WRAPPER_ERROR == -1   \* (uint32_t)-1

\* The handle of an object that could not be created.
NULL == [handle |-> "NULL"]

Timeout(timeout) == IF timeout = OS_WRAPPER_WAIT_FOREVER THEN osWaitForever ELSE timeout

\* What a wrapper with a status to report returns; a blocked call has not.
Report(r) ==
    [ret |-> IF r.status = Blocked THEN Blocked
             ELSE IF r.status # osOK THEN OS_WRAPPER_ERROR
             ELSE OS_WRAPPER_SUCCESS,
     obj |-> r.obj]

-----------------------------------------------------------------------------
(* Semaphores.  External: tokens, and the waiting threads in their order;  *)
(* a release hands its token to the first of them.                         *)

osSemaphoreNew(max_count, initial_count) ==
    [count |-> initial_count, max |-> max_count, waiters |-> <<>>]

osSemaphoreAcquire(s, thread, timeout) ==
    IF s = NULL THEN [status |-> osErrorParameter, obj |-> s]
    ELSE IF s.count > 0 THEN [status |-> osOK, obj |-> [s EXCEPT !.count = @ - 1]]
    ELSE IF timeout = osWaitForever
         THEN [status |-> Blocked, obj |-> [s EXCEPT !.waiters = Append(@, thread)]]
    ELSE [status |-> osErrorResource, obj |-> s]

osSemaphoreRelease(s) ==
    IF s = NULL THEN [status |-> osErrorParameter, obj |-> s]
    ELSE IF s.waiters # <<>> THEN [status |-> osOK, obj |-> [s EXCEPT !.waiters = Tail(@)]]
    ELSE IF s.count < s.max THEN [status |-> osOK, obj |-> [s EXCEPT !.count = @ + 1]]
    ELSE [status |-> osErrorResource, obj |-> s]

osSemaphoreDelete(s) == [status |-> IF s = NULL THEN osErrorParameter ELSE osOK, obj |-> NULL]

os_wrapper_semaphore_create(max_count, initial_count) == osSemaphoreNew(max_count, initial_count)

os_wrapper_semaphore_acquire(handle, thread, timeout) ==
    Report(osSemaphoreAcquire(handle, thread, Timeout(timeout)))

os_wrapper_semaphore_release(handle) == Report(osSemaphoreRelease(handle))

os_wrapper_semaphore_delete(handle) == Report(osSemaphoreDelete(handle))

-----------------------------------------------------------------------------
(* Mutexes.  External: the owner; not recursive, so that an owner who      *)
(* acquires again is refused, and only the owner releases.                 *)

osMutexNew == [owner |-> {}]

osMutexAcquire(m, thread, timeout) ==
    IF m = NULL THEN [status |-> osErrorParameter, obj |-> m]
    ELSE IF m.owner = {} THEN [status |-> osOK, obj |-> [m EXCEPT !.owner = {thread}]]
    ELSE IF m.owner # {thread} /\ timeout = osWaitForever THEN [status |-> Blocked, obj |-> m]
    ELSE [status |-> osErrorResource, obj |-> m]

osMutexRelease(m, thread) ==
    IF m = NULL THEN [status |-> osErrorParameter, obj |-> m]
    ELSE IF m.owner = {thread} THEN [status |-> osOK, obj |-> [m EXCEPT !.owner = {}]]
    ELSE [status |-> osErrorResource, obj |-> m]

osMutexDelete(m) == [status |-> IF m = NULL THEN osErrorParameter ELSE osOK, obj |-> NULL]

os_wrapper_mutex_create == osMutexNew

os_wrapper_mutex_acquire(handle, thread, timeout) ==
    IF handle = NULL THEN [ret |-> OS_WRAPPER_ERROR, obj |-> handle]
    ELSE Report(osMutexAcquire(handle, thread, Timeout(timeout)))

os_wrapper_mutex_release(handle, thread) ==
    IF handle = NULL THEN [ret |-> OS_WRAPPER_ERROR, obj |-> handle]
    ELSE Report(osMutexRelease(handle, thread))

os_wrapper_mutex_delete(handle) ==
    IF handle = NULL THEN [ret |-> OS_WRAPPER_ERROR, obj |-> handle]
    ELSE Report(osMutexDelete(handle))

-----------------------------------------------------------------------------
(* Threads.  Thread flags are the set of the bits that are set; bit 31 is  *)
(* osFlagsError.  External: osThreadFlagsWait with osFlagsWaitAll returns  *)
(* once all the flags are set and clears them.                             *)

osFlagsError == 31

osThreadFlagsSet(thread_flags, bits) ==
    IF osFlagsError \in bits THEN [status |-> osErrorParameter, obj |-> thread_flags]
    ELSE [status |-> osOK, obj |-> thread_flags \cup bits]

osThreadFlagsWait(thread_flags, bits, timeout) ==
    IF osFlagsError \in bits THEN [status |-> osErrorParameter, obj |-> thread_flags]
    ELSE IF bits \subseteq thread_flags THEN [status |-> osOK, obj |-> thread_flags \ bits]
    ELSE IF timeout = osWaitForever THEN [status |-> Blocked, obj |-> thread_flags]
    ELSE [status |-> osErrorTimeout, obj |-> thread_flags]

os_wrapper_thread_set_flag(thread_flags, bits) == Report(osThreadFlagsSet(thread_flags, bits))

os_wrapper_thread_set_flag_isr(thread_flags, bits) == Report(osThreadFlagsSet(thread_flags, bits))

os_wrapper_thread_wait_flag(thread_flags, bits, timeout) ==
    Report(osThreadFlagsWait(thread_flags, bits, Timeout(timeout)))

\* The attributes os_wrapper_thread_new gives the kernel: 0 asks for the
\* kernel's default stack.  (The TrustZone module id is TzContext's concern.)
os_wrapper_thread_new(stack_size, priority) ==
    [stack_size |-> IF stack_size # OS_WRAPPER_DEFAULT_STACK_SIZE THEN stack_size ELSE 0,
     priority |-> priority]

osPriorityNone == 0
osPriorityNormal == 24
osPriorityError == -1

\* External: a thread created with no priority gets the normal one.
EffectivePriority(attr) == IF attr.priority = osPriorityNone THEN osPriorityNormal ELSE attr.priority

os_wrapper_thread_get_priority(prio) ==
    IF prio = osPriorityError THEN [ret |-> OS_WRAPPER_ERROR, obj |-> NULL]
    ELSE [ret |-> OS_WRAPPER_SUCCESS, obj |-> prio]

-----------------------------------------------------------------------------
(* Message queues.  A send does not wait: it fails when the queue is full. *)
(* A receive waits.                                                        *)

osMessageQueueNew(msg_count) == [msgs |-> <<>>, msg_count |-> msg_count]

osMessageQueuePut(q, msg) ==
    IF Len(q.msgs) < q.msg_count THEN [status |-> osOK, obj |-> [q EXCEPT !.msgs = Append(@, msg)]]
    ELSE [status |-> osErrorResource, obj |-> q]

osMessageQueueGet(q) ==
    IF q.msgs # <<>> THEN [status |-> osOK, obj |-> [q EXCEPT !.msgs = Tail(@)]]
    ELSE [status |-> Blocked, obj |-> q]

os_wrapper_msg_queue_create(msg_count) == osMessageQueueNew(msg_count)

os_wrapper_msg_queue_send(mq_handle, msg) == Report(osMessageQueuePut(mq_handle, msg))

os_wrapper_msg_queue_receive(mq_handle) == Report(osMessageQueueGet(mq_handle))
=============================================================================
