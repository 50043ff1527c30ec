----------------------------- MODULE RtxConfig -----------------------------
(***************************************************************************)
(* The static configuration of the RTX kernel: the values of               *)
(* RTX_Config.h, what rtx_lib.c makes of them (the objects it defines and  *)
(* the record osRtxConfig it hands to the kernel), and the sizes of the    *)
(* kernel's objects from rtx_os.h.  Every branch of rtx_lib.c's            *)
(* preprocessor conditionals is kept; its #error directives are the        *)
(* assumption ConfigAssumption.  Section names, linker symbols and the     *)
(* event recorder, which OS_EVR_INIT leaves out of the build, are not.     *)
(***************************************************************************)
EXTENDS Integers

-----------------------------------------------------------------------------
(* RTX_Config.h, section by section. *)

\* A size at which the test thread's stack alone does not fit.
Mut_SystemHalved ==
    [dynamic_mem_size |-> 4096, tick_freq |-> 1000, robin_enable |-> 1, robin_timeout |-> 5,
     isr_fifo_queue |-> 16]

OS_SYSTEM ==
    [dynamic_mem_size |-> 8192, tick_freq |-> 1000, robin_enable |-> 1, robin_timeout |-> 5,
     isr_fifo_queue |-> 16]

OS_THREAD ==
    [obj_mem |-> 0, num |-> 1, def_stack_num |-> 0, user_stack_size |-> 0, stack_size |-> 256,
     idle_stack_size |-> 256, idle_tz_mod_id |-> 0, stack_check |-> 1, stack_watermark |-> 0,
     privilege_mode |-> 1]

OS_TIMER ==
    [obj_mem |-> 0, num |-> 1, thread_prio |-> 40, thread_stack_size |-> 256,
     thread_tz_mod_id |-> 0, cb_queue |-> 4]

OS_EVFLAGS == [obj_mem |-> 0, num |-> 1]
OS_MUTEX == [obj_mem |-> 0, num |-> 1]
OS_SEMAPHORE == [obj_mem |-> 0, num |-> 1]
OS_MEMPOOL == [obj_mem |-> 0, num |-> 1, data_size |-> 0]
OS_MSGQUEUE == [obj_mem |-> 0, num |-> 1, data_size |-> 0]

OS_THREAD_LIBSPACE_NUM == IF OS_THREAD.obj_mem = 0 THEN 4 ELSE OS_THREAD.num

-----------------------------------------------------------------------------
(* rtx_os.h: sizes in bytes, four for every pointer, word or group of      *)
(* bytes (the libraries that are shipped are built without                 *)
(* RTX_TF_M_EXTENSION).                                                    *)

osRtxThreadCbSize == 4 * 17
osRtxTimerCbSize == 4 * 8
osRtxEventFlagsCbSize == 4 * 4
osRtxMutexCbSize == 4 * 7
osRtxSemaphoreCbSize == 4 * 4
osRtxMpInfoSize == 4 * 6
osRtxMemoryPoolCbSize == 4 * 3 + osRtxMpInfoSize
osRtxMessageSize == 4 * 3
osRtxMessageQueueCbSize == 4 * 3 + osRtxMpInfoSize + 4 * 4

WordsFor(bytes) == (bytes + 3) \div 4

osRtxMessageQueueMemSize(msg_count, msg_size) ==
    msg_count * (osRtxMessageSize + 4 * WordsFor(msg_size))

-----------------------------------------------------------------------------
(* rtx_lib.c *)

NoMemory == [addr |-> "NULL", size |-> 0]

\* An array of rtx_lib.c whose size is given in bytes.
Static(name, size) == [addr |-> name, size |-> size]

\* The fixed-size pool of one kind of object, if it has its own memory.
Pool(config, name, block_size) ==
    IF config.obj_mem # 0 THEN [addr |-> name, max_blocks |-> config.num, block_size |-> block_size]
    ELSE NoMemory

os_mem ==
    IF OS_SYSTEM.dynamic_mem_size # 0 THEN Static("os_mem", OS_SYSTEM.dynamic_mem_size) ELSE NoMemory

os_isr_queue == OS_SYSTEM.isr_fifo_queue

os_mpi_thread == Pool(OS_THREAD, "os_thread_cb", osRtxThreadCbSize)

os_mpi_def_stack ==
    IF OS_THREAD.obj_mem # 0 /\ OS_THREAD.def_stack_num # 0
    THEN [addr |-> "os_thread_def_stack", max_blocks |-> OS_THREAD.def_stack_num,
          block_size |-> OS_THREAD.stack_size]
    ELSE NoMemory

os_thread_stack ==
    IF OS_THREAD.obj_mem # 0 /\ OS_THREAD.user_stack_size # 0
    THEN Static("os_thread_stack", 8 * (2 + OS_THREAD.num) + OS_THREAD.user_stack_size)
    ELSE NoMemory

osPriorityIdle == 1

os_idle_thread_attr ==
    [cb_size |-> osRtxThreadCbSize, stack_size |-> OS_THREAD.idle_stack_size,
     priority |-> osPriorityIdle, tz_module |-> OS_THREAD.idle_tz_mod_id]

os_mpi_timer == Pool(OS_TIMER, "os_timer_cb", osRtxTimerCbSize)

HasTimerThread == OS_TIMER.thread_stack_size # 0 /\ OS_TIMER.cb_queue # 0

os_timer_thread_attr ==
    [cb_size |-> osRtxThreadCbSize, stack_size |-> OS_TIMER.thread_stack_size,
     priority |-> OS_TIMER.thread_prio, tz_module |-> OS_TIMER.thread_tz_mod_id]

os_timer_mq_attr ==
    [cb_size |-> osRtxMessageQueueCbSize,
     mq_size |-> osRtxMessageQueueMemSize(OS_TIMER.cb_queue, 8)]

os_mpi_ef == Pool(OS_EVFLAGS, "os_ef_cb", osRtxEventFlagsCbSize)
os_mpi_mutex == Pool(OS_MUTEX, "os_mutex_cb", osRtxMutexCbSize)
os_mpi_semaphore == Pool(OS_SEMAPHORE, "os_semaphore_cb", osRtxSemaphoreCbSize)
os_mpi_mp == Pool(OS_MEMPOOL, "os_mp_cb", osRtxMemoryPoolCbSize)
os_mpi_mq == Pool(OS_MSGQUEUE, "os_mq_cb", osRtxMessageQueueCbSize)

os_mp_data ==
    IF OS_MEMPOOL.obj_mem # 0 /\ OS_MEMPOOL.data_size # 0
    THEN Static("os_mp_data", 8 * (2 + OS_MEMPOOL.num) + OS_MEMPOOL.data_size) ELSE NoMemory

os_mq_data ==
    IF OS_MSGQUEUE.obj_mem # 0 /\ OS_MSGQUEUE.data_size # 0
    THEN Static("os_mq_data", 8 * (2 + OS_MSGQUEUE.num) + OS_MSGQUEUE.data_size) ELSE NoMemory

\* The configuration record.  Without a timer thread its three last fields are
\* NULL, NULL and 0.
osRtxConfig ==
    [flags |-> {f \in {"privileged", "stack check", "watermark"} :
                    \/ f = "privileged" /\ OS_THREAD.privilege_mode # 0
                    \/ f = "stack check" /\ OS_THREAD.stack_check # 0
                    \/ f = "watermark" /\ OS_THREAD.stack_watermark # 0},
     tick_freq |-> OS_SYSTEM.tick_freq,
     robin_timeout |-> IF OS_SYSTEM.robin_enable # 0 THEN OS_SYSTEM.robin_timeout ELSE 0,
     isr_queue |-> os_isr_queue,
     mem |-> [stack |-> os_thread_stack, mp_data |-> os_mp_data, mq_data |-> os_mq_data,
              common |-> os_mem],
     mpi |-> [stack |-> os_mpi_def_stack, thread |-> os_mpi_thread, timer |-> os_mpi_timer,
              event_flags |-> os_mpi_ef, mutex |-> os_mpi_mutex, semaphore |-> os_mpi_semaphore,
              memory_pool |-> os_mpi_mp, message_queue |-> os_mpi_mq],
     thread_stack_size |-> OS_THREAD.stack_size,
     idle_thread_attr |-> os_idle_thread_attr,
     timer |-> IF HasTimerThread
               THEN <<os_timer_thread_attr, os_timer_mq_attr, OS_TIMER.cb_queue>> ELSE <<>>]

\* The #error directives.
StackValid(size, least) == size % 8 = 0 /\ size >= least
NumValid(config) == config.obj_mem # 0 => config.num # 0
DataValid(config) == config.obj_mem # 0 => config.data_size % 8 = 0

ASSUME ConfigAssumption ==
    /\ OS_SYSTEM.dynamic_mem_size % 8 = 0 /\ OS_SYSTEM.tick_freq >= 1
    /\ OS_SYSTEM.isr_fifo_queue >= 4
    /\ StackValid(OS_THREAD.stack_size, 72) /\ StackValid(OS_THREAD.idle_stack_size, 72)
    /\ NumValid(OS_THREAD) /\ OS_THREAD.user_stack_size % 8 = 0
    /\ HasTimerThread => StackValid(OS_TIMER.thread_stack_size, 96)
    /\ \A config \in {OS_TIMER, OS_EVFLAGS, OS_MUTEX, OS_SEMAPHORE, OS_MEMPOOL, OS_MSGQUEUE} :
          NumValid(config)
    /\ \A config \in {OS_MEMPOOL, OS_MSGQUEUE} : DataValid(config)

-----------------------------------------------------------------------------
(* External: what the kernel does with the configuration. *)

\* A block of the common memory: a header of 8 bytes, a multiple of 8.
Block(size) == ((size + 8 + 7) \div 8) * 8

\* What the kernel's memory manager keeps for itself in the common memory.
MemHead == 16

\* The common memory that a control block takes: none if its kind has a pool.
CbBlock(pool, cb_size) == IF pool = NoMemory THEN Block(cb_size) ELSE 0

\* The common memory that a thread takes; stack_size 0 asks for the default.
ThreadBlocks(stack_size) ==
    CbBlock(osRtxConfig.mpi.thread, osRtxThreadCbSize)
      + Block(IF stack_size = 0 THEN osRtxConfig.thread_stack_size ELSE stack_size)

\* osKernelStart creates the idle thread, and the timer thread with its queue,
\* in the memory that the configuration provides.
SystemObjectsFit ==
    /\ os_idle_thread_attr.cb_size >= osRtxThreadCbSize
    /\ StackValid(os_idle_thread_attr.stack_size, 72)
    /\ osRtxConfig.timer # <<>> =>
          /\ osRtxConfig.timer[1].cb_size >= osRtxThreadCbSize
          /\ StackValid(osRtxConfig.timer[1].stack_size, 72)
          /\ osRtxConfig.timer[2].cb_size >= osRtxMessageQueueCbSize
          /\ osRtxConfig.timer[2].mq_size >= osRtxMessageQueueMemSize(osRtxConfig.timer[3], 8)
=============================================================================
