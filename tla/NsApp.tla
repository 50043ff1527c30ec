------------------------------- MODULE NsApp -------------------------------
(***************************************************************************)
(* The non-secure application on RTX: app_broker/main_ns.c from reset to   *)
(* the scheduler's start, then its threads.  The test thread runs the      *)
(* protected storage tests that need a thread of their own, through        *)
(* tfm_ps_run_test (tests_reg/test/secure_fw/suites/ps/non_secure/         *)
(* ns_test_helpers.c); it, those threads and the mailbox thread use the C  *)
(* library through RtxLib.  Everything they allocate comes from the one    *)
(* os_mem of RtxConfig, and main_ns.c drops the status of every kernel     *)
(* call it makes.                                                          *)
(*                                                                         *)
(* The build is a variable that never changes: the compiler, and how the   *)
(* application reaches the secure side.                                    *)
(***************************************************************************)
EXTENDS RtxLib, Functions

CONSTANTS
    NUM_MAILBOX_QUEUE_SLOT,
    MaxTasks            \* bound: the tasks the test thread runs

ASSUME MaxTasksAssumption == MaxTasks \in Nat
ASSUME SlotAssumption == NUM_MAILBOX_QUEUE_SLOT \in Nat \ {0}

\* os_mem holds no more than five threads at a time: there is always an address.
ASSUME AddressAssumption == Cardinality(ThreadId) >= 5

VARIABLES
    build,              \* [compiler, interface]
    boot,               \* where main is
    failed,             \* external: an initialisation that main checks failed
    heap,               \* bytes of os_mem in use
    threads,            \* the live threads: id -> role
    child,              \* where each task thread is
    ps,                 \* where the test thread is in tfm_ps_run_test
    test_semaphore,
    tasks,              \* the tasks run so far
    starved             \* history: how many earlier tasks had not exited yet when a
                        \* creation failed, -1 if none did

appVars == <<build, boot, failed, heap, threads, child, ps, test_semaphore, tasks, starved>>
vars == <<kernel, libVars, appVars>>

bootRest == <<build, threads, child, ps, test_semaphore, tasks, starved>>

Roles == {"test", "mailbox", "task", "none"}
Compilers == {"armclang", "microlib", "gcc", "iar"}
Interfaces == {"trustzone", "mailbox", "mailbox_thread"}

Live == {id \in ThreadId : threads[id] # "none"}
TestThread == {id \in ThreadId : threads[id] = "test"}
Lingering == {id \in ThreadId : threads[id] = "task" /\ child[id] = "exit"}

Fits(size) == heap + size <= osRtxConfig.mem.common.size

-----------------------------------------------------------------------------
(* From reset to osKernelStart. *)

BootGoto(label) == boot' = label

\* External: the first osKernelInitialize sets up os_mem, a second one finds
\* the kernel ready and does nothing.
osKernelInitialize ==
    IF kernel = osKernelInactive THEN kernel' = osKernelReady /\ heap' = MemHead
    ELSE UNCHANGED <<kernel, heap>>

\* _platform_post_stackheap_init (Arm's library, not the microlib) or
\* software_init_hook (GCC), which the library's start-up calls before main.
init_hook ==
    /\ boot = "reset"
    /\ IF build.compiler \in {"armclang", "gcc"} THEN osKernelInitialize
       ELSE UNCHANGED <<kernel, heap>>
    /\ BootGoto(IF build.compiler = "armclang" THEN "clib" ELSE "platform")
    /\ UNCHANGED <<libVars, bootRest, failed>>

\* Arm's library initialises itself: its mutex, for which it needs the kernel.
clib_init ==
    LET size == CbBlock(osRtxConfig.mpi.mutex, osRtxMutexCbSize)
        memory == kernel # osKernelInactive /\ Fits(size)
    IN  /\ boot = "clib"
        /\ _mutex_initialize(memory)
        /\ heap' = IF memory THEN heap + size ELSE heap
        /\ BootGoto(IF memory THEN "platform" ELSE "clib")
        /\ UNCHANGED <<kernel, bootRest, failed>>

\* A call that main checks: on failure it loops forever.
Checked(here, next) ==
    /\ boot = here
    /\ \/ BootGoto(next) /\ UNCHANGED failed
       \/ BootGoto("halt") /\ failed' = TRUE
    /\ UNCHANGED <<kernel, libVars, bootRest, heap>>

tfm_ns_platform_init == Checked("platform", "cp")
tfm_ns_cp_init == Checked("cp", "kernel")

main_kernel_initialize ==
    /\ boot = "kernel"
    /\ osKernelInitialize
    /\ BootGoto(IF build.interface = "trustzone" THEN "interface" ELSE "sync")
    /\ UNCHANGED <<libVars, bootRest, failed>>

\* tfm_ns_interface_init, whose result main drops.
tfm_ns_interface_init ==
    /\ boot = "interface"
    /\ BootGoto("test_thread")
    /\ UNCHANGED <<kernel, libVars, bootRest, heap, failed>>

tfm_ns_wait_for_s_cpu_ready == Checked("sync", "mailbox")

\* The memory of the mailbox's lock, or of its message queue of pointers.
MailboxBlocks ==
    IF build.interface = "mailbox"
    THEN CbBlock(osRtxConfig.mpi.semaphore, osRtxSemaphoreCbSize)
    ELSE CbBlock(osRtxConfig.mpi.message_queue, osRtxMessageQueueCbSize)
           + Block(osRtxMessageQueueMemSize(NUM_MAILBOX_QUEUE_SLOT, 4))

\* tfm_ns_mailbox_init creates the lock or the queue and fails without; for
\* other reasons (hardware, what it is given) it is external.  main loops on any
\* failure.
tfm_ns_mailbox_init ==
    /\ boot = "mailbox"
    /\ \E hardware \in BOOLEAN :
          /\ failed' = (failed \/ ~hardware)
          /\ IF hardware /\ Fits(MailboxBlocks)
             THEN /\ heap' = heap + MailboxBlocks
                  /\ BootGoto(IF build.interface = "mailbox_thread" THEN "mailbox_thread" ELSE "test_thread")
             ELSE BootGoto("halt") /\ UNCHANGED heap
    /\ UNCHANGED <<kernel, libVars, bootRest>>

\* External: the address of the next control block, the lowest that is free
\* (the kernel's memory manager takes the first block that fits).
NextId == CHOOSE id \in ThreadId \ Live : \A free \in ThreadId \ Live : id <= free

\* External: a thread is created if its memory fits.
osThreadNew(role, attr) ==
    IF Fits(ThreadBlocks(attr.stack_size))
    THEN /\ threads' = [threads EXCEPT ![NextId] = role]
         /\ heap' = heap + ThreadBlocks(attr.stack_size)
    ELSE UNCHANGED <<threads, heap>>

thread_attr == [stack_size |-> 4096, priority |-> osPriorityNone]
mailbox_thread_attr == [stack_size |-> 1024, priority |-> osPriorityNone]

\* main creates its threads and does not look whether it got them.
create_mailbox_thread ==
    /\ boot = "mailbox_thread"
    /\ osThreadNew("mailbox", mailbox_thread_attr)
    /\ BootGoto("test_thread")
    /\ UNCHANGED <<kernel, libVars, build, failed, child, ps, test_semaphore, tasks, starved>>

create_test_thread ==
    /\ boot = "test_thread"
    /\ osThreadNew("test", thread_attr)
    /\ BootGoto("start")
    /\ UNCHANGED <<kernel, libVars, build, failed, child, ps, test_semaphore, tasks, starved>>

\* osKernelStart returns only if it fails; main then loops.
osKernelStart ==
    /\ boot = "start"
    /\ lib[Main].pc = "out"
    /\ IF kernel = osKernelReady /\ SystemObjectsFit
       THEN kernel' = osKernelRunning /\ BootGoto("running")
       ELSE BootGoto("halt") /\ UNCHANGED kernel
    /\ UNCHANGED <<libVars, bootRest, heap, failed>>

BootStep ==
    \/ init_hook \/ clib_init \/ tfm_ns_platform_init \/ tfm_ns_cp_init
    \/ main_kernel_initialize \/ tfm_ns_interface_init \/ tfm_ns_wait_for_s_cpu_ready
    \/ tfm_ns_mailbox_init \/ create_mailbox_thread \/ create_test_thread \/ osKernelStart

-----------------------------------------------------------------------------
(* tfm_ps_run_test in the test thread, and the thread it creates. *)

PS_TEST_TASK_STACK_SIZE == 768
SemBlock == CbBlock(osRtxConfig.mpi.semaphore, osRtxSemaphoreCbSize)

psRest == <<kernel, libVars, build, boot, failed>>

InTestThread(label) == ps = label /\ \E id \in TestThread : lib[id].pc = "out"

\* Mutant of InitialCount: the binary semaphore starts with its token.
Mut_Released == 1

InitialCount == 0

\* The semaphore; the test fails without.
ps_semaphore ==
    /\ InTestThread("idle") /\ tasks < MaxTasks
    /\ tasks' = tasks + 1
    /\ IF Fits(SemBlock)
       THEN /\ test_semaphore' = os_wrapper_semaphore_create(1, InitialCount)
            /\ heap' = heap + SemBlock
            /\ ps' = "thread"
            /\ UNCHANGED starved
       ELSE /\ starved' = Cardinality(Lingering)
            /\ UNCHANGED <<test_semaphore, heap, ps>>
    /\ UNCHANGED <<psRest, threads, child>>

\* os_wrapper_thread_get_priority of the test thread, whose handle is never NULL.
OwnPriority == os_wrapper_thread_get_priority(EffectivePriority(thread_attr))

PsAttr == os_wrapper_thread_new(PS_TEST_TASK_STACK_SIZE, OwnPriority.obj)

\* The thread, at the test thread's own priority; without the priority or the
\* thread the semaphore is deleted and the test fails.
ps_thread ==
    /\ InTestThread("thread")
    /\ IF OwnPriority.ret # OS_WRAPPER_ERROR /\ Fits(ThreadBlocks(PsAttr.stack_size))
       THEN /\ threads' = [threads EXCEPT ![NextId] = "task"]
            /\ child' = [child EXCEPT ![NextId] = "run"]
            /\ heap' = heap + ThreadBlocks(PsAttr.stack_size)
            /\ ps' = "acquire"
            /\ UNCHANGED <<test_semaphore, starved>>
       ELSE /\ test_semaphore' = os_wrapper_semaphore_delete(test_semaphore).obj
            /\ heap' = heap - SemBlock
            /\ ps' = "idle"
            /\ starved' = Cardinality(Lingering)
            /\ UNCHANGED <<threads, child>>
    /\ UNCHANGED <<psRest, tasks>>

\* The test thread waits for the task's release.
ps_acquire ==
    /\ InTestThread("acquire")
    /\ \E id \in TestThread :
          LET r == os_wrapper_semaphore_acquire(test_semaphore, id, OS_WRAPPER_WAIT_FOREVER)
          IN  /\ test_semaphore' = r.obj
              /\ ps' = IF r.ret = Blocked THEN "wait" ELSE "release"
    /\ UNCHANGED <<psRest, heap, threads, child, tasks, starved>>

\* It gives the token back and deletes the semaphore.
ps_finish ==
    /\ InTestThread("release")
    /\ test_semaphore' =
          os_wrapper_semaphore_delete(os_wrapper_semaphore_release(test_semaphore).obj).obj
    /\ heap' = heap - SemBlock
    /\ ps' = "idle"
    /\ UNCHANGED <<psRest, threads, child, tasks, starved>>

InTask(id, label) == threads[id] = "task" /\ child[id] = label /\ lib[id].pc = "out"

\* test_task_runner: the test function is over, the semaphore is released, and
\* the waiting test thread goes on.
task_release(id) ==
    /\ InTask(id, "run")
    /\ test_semaphore' = os_wrapper_semaphore_release(test_semaphore).obj
    /\ ps' = IF ps = "wait" /\ test_semaphore.waiters # <<>> THEN "release" ELSE ps
    /\ child' = [child EXCEPT ![id] = "exit"]
    /\ UNCHANGED <<psRest, heap, threads, tasks, starved>>

\* os_wrapper_thread_exit: only now does the thread's memory come back.
os_wrapper_thread_exit(id) ==
    /\ InTask(id, "exit")
    /\ threads' = [threads EXCEPT ![id] = "none"]
    /\ child' = [child EXCEPT ![id] = "none"]
    /\ heap' = heap - ThreadBlocks(PsAttr.stack_size)
    /\ UNCHANGED <<psRest, ps, test_semaphore, tasks, starved>>

HelperStep == ps_semaphore \/ ps_thread \/ ps_acquire \/ ps_finish

TaskStep(id) == task_release(id) \/ os_wrapper_thread_exit(id)

-----------------------------------------------------------------------------
(* Who uses the C library. *)

\* main between its initialisation and the scheduler's start, and threads.
MayCallLib(c) ==
    /\ build.compiler = "armclang"
    /\ IF c = Main THEN boot \in {"platform", "start"}
       ELSE \/ threads[c] = "test" /\ ps = "idle" /\ tasks < MaxTasks
            \/ threads[c] = "mailbox"
            \/ threads[c] = "task" /\ child[c] = "run"

call_library(c) == MayCallLib(c) /\ libspace_enter(c) /\ UNCHANGED <<kernel, appVars>>

library_step(c) == LibStep(c) /\ UNCHANGED <<kernel, appVars>>

-----------------------------------------------------------------------------
Init ==
    /\ LibInit
    /\ kernel = osKernelInactive
    /\ build \in [compiler : Compilers, interface : Interfaces]
    /\ boot = "reset"
    /\ failed = FALSE
    /\ heap = 0
    /\ threads = [id \in ThreadId |-> "none"]
    /\ child = [id \in ThreadId |-> "none"]
    /\ ps = "idle"
    /\ test_semaphore = NULL
    /\ tasks = 0
    /\ starved = -1

\* Threads run only once main has started the scheduler.
Running == boot = "running"
Booting == boot # "running"

\* The tests are over, or main hangs, or a thread does and takes its turns in
\* osRtxErrorNotify: the idle thread, or a loop.
Idle ==
    /\ \/ boot = "halt" \/ \E c \in Caller : lib[c].pc = "failed"
       \/ boot = "running" /\ ps = "idle" /\ (tasks = MaxTasks \/ TestThread = {})
    /\ UNCHANGED vars

Next ==
    \/ Booting /\ lib[Main].pc = "out" /\ BootStep
    \/ Booting /\ (call_library(Main) \/ library_step(Main))
    \/ Running /\ HelperStep
    \/ Running /\ \E id \in ThreadId : TaskStep(id) \/ call_library(id) \/ library_step(id)
    \/ Idle

Spec == Init /\ [][Next]_vars

-----------------------------------------------------------------------------
(* Properties. *)

\* os_mem is large enough in every build: although main drops the status of
\* osThreadNew, its threads are there once the scheduler runs, and a storage
\* test fails for want of memory only if three earlier task threads, done and
\* preempted before their exit, still hold theirs.
MemorySuffices ==
    /\ kernel = osKernelRunning =>
          /\ TestThread # {}
          /\ build.interface = "mailbox_thread" => \E id \in ThreadId : threads[id] = "mailbox"
    /\ starved # -1 => starved >= 3

\* The system hangs only where it should: main loops after a failure of one of
\* the initialisations it checks, never for want of memory, and a thread loops in
\* osRtxErrorNotify only if every library space was another thread's, each of a
\* thread of its own.  This stays so while the others go on and claim entries: no
\* race over os_libspace_id ever wastes a space or makes one look as if a thread
\* that gave up had it.
HaltExplained ==
    /\ boot = "halt" => failed
    /\ lib[Main].pc # "failed"
    /\ \A c \in ThreadId : lib[c].pc = "failed" =>
          /\ c \notin Range(os_libspace_id)
          /\ Cardinality(Range(os_libspace_id) \ {NoId}) = OS_THREAD_LIBSPACE_NUM

\* A task thread reaches its test function and result through a structure on
\* the stack of tfm_ps_run_test, and the semaphore through a global: until its
\* release it runs only while that call waits for it and the semaphore exists.
\* And a call that waits is the semaphore's one waiter, with the release of a
\* running task still to come: earlier tasks, done and not yet gone, cannot
\* have used it up.
TaskWithinHelper ==
    /\ \A id \in ThreadId : child[id] = "run" =>
          ps \in {"acquire", "wait"} /\ test_semaphore # NULL
    /\ ps = "wait" =>
          /\ \E id \in ThreadId : child[id] = "run"
          /\ \E id \in TestThread : test_semaphore.waiters = <<id>>
=============================================================================
