---------------------------- MODULE NsApp_proofs ----------------------------
(***************************************************************************)
(* Proofs about the non-secure application on RTX, in every build and for  *)
(* any number of tasks and of addresses for control blocks: threads in the *)
(* C library have spaces of their own, its critical section has one thread *)
(* at a time, a storage test's thread runs only within its call, the       *)
(* memory is enough, and the system halts only where it should.            *)
(***************************************************************************)
EXTENDS NsApp, WellFoundedInduction, FiniteSetTheorems, TLAPS

-----------------------------------------------------------------------------
(* Natural numbers. *)

(***************************************************************************)
(* The least-number principle, for a set of natural numbers.               *)
(***************************************************************************)
LEMMA LeastNumber ==
    ASSUME NEW S, S \subseteq Nat, S # {}
    PROVE  \E i \in S : \A j \in S : i <= j
<1>. DEFINE Less == {ss \in Nat \X Nat : ss[1] < ss[2]}
<1>1. IsWellFoundedOn(Less, Nat)
  BY NatLessThanWellFounded DEF OpToRel
<1>2. \E i \in S : \A j \in S : <<j, i>> \notin Less
  <2>. HIDE DEF Less
  <2>. QED BY <1>1, WFMin
<1>3. PICK i \in S : \A j \in S : <<j, i>> \notin Less
  BY <1>2
<1>4. ASSUME NEW j \in S PROVE i <= j
  <2>1. i \in Nat /\ j \in Nat
    OBVIOUS
  <2>2. ~(j < i)
    BY <1>3, <2>1
  <2>. QED
    BY <2>1, <2>2
<1>. QED
  BY <1>4

-----------------------------------------------------------------------------
(* The inductive invariant. *)

LibLabel == {"out", "test", "claim", "compare", "using", "inside", "failed"}
BootLabel ==
    {"reset", "clib", "platform", "cp", "kernel", "interface", "sync", "mailbox",
     "mailbox_thread", "test_thread", "start", "running", "halt"}

LibRecord == [pc : LibLabel, n : 0 .. OS_THREAD_LIBSPACE_NUM, space : LibSpace \cup {NoSpace}]
Mutex == [owner : SUBSET Caller]
Semaphore == [count : 0 .. 1, max : {1}, waiters : Seq(ThreadId)]

AppTypeOK ==
    /\ kernel \in {osKernelInactive, osKernelReady, osKernelRunning}
    /\ os_kernel_active \in {0, 1}
    /\ os_libspace_id \in [0 .. OS_THREAD_LIBSPACE_NUM - 1 -> Caller]
    /\ lib \in [Caller -> LibRecord]
    /\ clib_mutex \in Mutex \cup {NULL}
    /\ raced \in BOOLEAN
    /\ build \in [compiler : Compilers, interface : Interfaces]
    /\ boot \in BootLabel
    /\ failed \in BOOLEAN
    /\ heap \in Int
    /\ threads \in [ThreadId -> Roles]
    /\ child \in [ThreadId -> {"none", "run", "exit"}]
    /\ ps \in {"idle", "thread", "acquire", "wait", "release"}
    /\ test_semaphore \in Semaphore \cup {NULL}
    /\ tasks \in Nat
    /\ starved \in Int

\* How far main is says what it has set up.
BootOK ==
    /\ kernel = osKernelRunning <=> boot = "running"
    /\ boot = "reset" => kernel = osKernelInactive
    /\ boot \in {"clib", "interface", "sync", "mailbox", "mailbox_thread", "test_thread", "start"} =>
          kernel = osKernelReady
    /\ boot = "clib" => build.compiler = "armclang"
    /\ boot = "interface" => build.interface = "trustzone"
    /\ boot \in {"sync", "mailbox"} => build.interface # "trustzone"
    /\ boot = "mailbox_thread" => build.interface = "mailbox_thread"
    /\ os_kernel_active = 1 => boot = "running"
    /\ clib_mutex # NULL <=> build.compiler = "armclang" /\ boot \notin {"reset", "clib"}
    /\ clib_mutex # NULL => kernel # osKernelInactive

\* The threads: one test thread and one mailbox thread at most, and tasks.
ThreadsOK ==
    /\ \A id \in ThreadId :
          /\ child[id] # "none" <=> threads[id] = "task"
          /\ threads[id] = "task" => boot = "running"
          /\ threads[id] = "test" => boot \in {"start", "running"}
          /\ threads[id] = "mailbox" => boot \in {"test_thread", "start", "running"}
    /\ \A a, b \in ThreadId :
          threads[a] = threads[b] /\ threads[a] \in {"test", "mailbox"} => a = b

\* Every byte of os_mem in use belongs to an object that exists.
TaskThreads == {id \in ThreadId : threads[id] = "task"}
MailboxThreads == {id \in ThreadId : threads[id] = "mailbox"}

KernelBytes == IF kernel = osKernelInactive THEN 0 ELSE 16
ClibBytes == IF clib_mutex = NULL THEN 0 ELSE 40
MailboxBytes ==
    IF build.interface # "trustzone"
         /\ boot \in {"mailbox_thread", "test_thread", "start", "running"}
    THEN MailboxBlocks ELSE 0
MailboxThreadBytes == IF MailboxThreads = {} THEN 0 ELSE 1112
TestBytes == IF TestThread = {} THEN 0 ELSE 4184
TaskBytes == 856 * Cardinality(TaskThreads)
SemBytes == IF ps = "idle" THEN 0 ELSE 24

HeapOK ==
    boot # "halt" =>
        heap = KernelBytes + ClibBytes + MailboxBytes + MailboxThreadBytes + TestBytes + TaskBytes + SemBytes

\* A caller that searches os_libspace_id has passed entries of others only, one
\* about to claim an entry has none, and one that uses a space has its entry,
\* unless threads raced for it.
SearchOK(c) ==
    /\ lib[c].pc \in {"test", "claim", "compare", "failed"} =>
          \A j \in 0 .. lib[c].n - 1 : os_libspace_id[j] # NoId /\ os_libspace_id[j] # c
    /\ lib[c].pc \in {"claim", "compare"} => lib[c].n < OS_THREAD_LIBSPACE_NUM
    /\ lib[c].pc = "claim" => \A j \in DOMAIN os_libspace_id : os_libspace_id[j] # c
    /\ lib[c].pc = "compare" => os_libspace_id[lib[c].n] # NoId
    /\ lib[c].pc = "failed" => lib[c].n = OS_THREAD_LIBSPACE_NUM
    /\ lib[c].pc \in {"using", "inside"} /\ ~raced =>
          lib[c].space \in DOMAIN os_libspace_id /\ os_libspace_id[lib[c].space] = c

\* main uses the library before the kernel runs, with a space of its own, and
\* threads when it does.
LibOK ==
    /\ \A c \in Caller : lib[c].pc = "out" => lib[c] = OutOfLib
    /\ \A c \in ThreadId :
          /\ lib[c].pc # "out" => boot = "running" /\ build.compiler = "armclang"
          /\ SearchOK(c)
    /\ lib[Main].pc # "out" =>
          /\ boot \in {"platform", "start"}
          /\ lib[Main].pc \in {"using", "inside"} /\ lib[Main].space = OS_THREAD_LIBSPACE_NUM

\* The claimed entries come first, each with another thread.
EntriesOK ==
    \A j, k \in DOMAIN os_libspace_id :
        os_libspace_id[k] # NoId =>
            /\ j < k => os_libspace_id[j] # NoId
            /\ os_libspace_id[j] = os_libspace_id[k] => j = k

\* The library's mutex.
Inside == {c \in Caller : lib[c].pc = "inside"}

MutexOK ==
    /\ kernel # osKernelRunning /\ clib_mutex # NULL => clib_mutex.owner = {}
    /\ kernel = osKernelRunning /\ clib_mutex # NULL => clib_mutex.owner = Inside
    /\ boot = "running" => \A c, d \in Inside : c = d

\* The semaphore, the test thread and the task it waits for.
RunningTasks == {id \in ThreadId : child[id] = "run"}

PsOK ==
    /\ ps # "idle" => boot = "running" /\ test_semaphore # NULL
    /\ ps = "idle" => test_semaphore = NULL
    /\ \A a, b \in RunningTasks : a = b
    /\ ps \in {"idle", "thread", "release"} => RunningTasks = {}
    /\ ps \in {"thread", "release"} => test_semaphore.count = 0 /\ test_semaphore.waiters = <<>>
    /\ ps = "acquire" =>
          /\ test_semaphore.waiters = <<>>
          /\ test_semaphore.count = IF RunningTasks = {} THEN 1 ELSE 0
    /\ ps = "wait" =>
          /\ RunningTasks # {} /\ test_semaphore.count = 0
          /\ \E id \in TestThread : test_semaphore.waiters = <<id>>

NInv ==
    /\ AppTypeOK /\ BootOK /\ ThreadsOK /\ HeapOK
    /\ LibOK /\ EntriesOK /\ MutexOK /\ PsOK

\* With a mailbox of up to eleven slots no creation fails but for tasks that
\* have not exited.
Sufficient ==
    /\ boot \in {"start", "running"} => TestThread # {}
    /\ boot \in {"test_thread", "start", "running"} /\ build.interface = "mailbox_thread" =>
          MailboxThreads # {}
    /\ starved # -1 => starved >= 3
    /\ boot = "halt" => failed

-----------------------------------------------------------------------------
(* The sizes that RTX_Config.h and rtx_os.h give. *)

\* RTX_Config.h asks for no object pools: all blocks come from os_mem, 8192
\* bytes.
LEMMA NoPools ==
    /\ osRtxConfig.mpi.thread = NoMemory
    /\ osRtxConfig.mpi.mutex = NoMemory
    /\ osRtxConfig.mpi.semaphore = NoMemory
    /\ osRtxConfig.mpi.message_queue = NoMemory
    /\ osRtxConfig.mem.common.size = 8192
<1>1. os_mpi_thread = NoMemory
  BY DEF os_mpi_thread, Pool, OS_THREAD
<1>2. os_mpi_mutex = NoMemory /\ os_mpi_semaphore = NoMemory /\ os_mpi_mq = NoMemory
  BY DEF os_mpi_mutex, os_mpi_semaphore, os_mpi_mq, Pool, OS_MUTEX, OS_SEMAPHORE, OS_MSGQUEUE
<1>3. os_mem.size = 8192
  BY DEF os_mem, Static, OS_SYSTEM
<1>. QED
  BY <1>1, <1>2, <1>3 DEF osRtxConfig

\* The blocks os_mem gives for each object, computed from RTX_Config.h and
\* rtx_os.h.
LEMMA Sizes ==
    /\ ThreadBlocks(768) = 856
    /\ ThreadBlocks(1024) = 1112
    /\ ThreadBlocks(4096) = 4184
    /\ SemBlock = 24
    /\ CbBlock(osRtxConfig.mpi.mutex, osRtxMutexCbSize) = 40
    /\ MailboxBlocks = IF build.interface = "mailbox" THEN 24 ELSE 16 * NUM_MAILBOX_QUEUE_SLOT + 72
    /\ MailboxBlocks \in Nat
    /\ \A size : Fits(size) <=> heap + size <= 8192
    /\ PsAttr.stack_size = 768 /\ OwnPriority.ret # OS_WRAPPER_ERROR
    /\ SystemObjectsFit
    /\ OS_THREAD_LIBSPACE_NUM = 4
<1>1. Block(osRtxThreadCbSize) = 80 /\ Block(768) = 776 /\ Block(1024) = 1032 /\ Block(4096) = 4104
  BY DEF Block, osRtxThreadCbSize
<1>2. /\ Block(osRtxSemaphoreCbSize) = 24 /\ Block(osRtxMutexCbSize) = 40
      /\ Block(osRtxMessageQueueCbSize) = 64
  BY DEF Block, osRtxSemaphoreCbSize, osRtxMutexCbSize, osRtxMessageQueueCbSize, osRtxMpInfoSize
<1>3. osRtxMessageQueueMemSize(NUM_MAILBOX_QUEUE_SLOT, 4) = 16 * NUM_MAILBOX_QUEUE_SLOT
  BY SlotAssumption DEF osRtxMessageQueueMemSize, osRtxMessageSize, WordsFor
<1>4. Block(16 * NUM_MAILBOX_QUEUE_SLOT) = 16 * NUM_MAILBOX_QUEUE_SLOT + 8
  BY SlotAssumption DEF Block
<1>5. ThreadBlocks(768) = 856 /\ ThreadBlocks(1024) = 1112 /\ ThreadBlocks(4096) = 4184
  BY <1>1, NoPools DEF ThreadBlocks, CbBlock
<1>6. SemBlock = 24 /\ CbBlock(osRtxConfig.mpi.mutex, osRtxMutexCbSize) = 40
  BY <1>2, NoPools DEF SemBlock, CbBlock
<1>7. MailboxBlocks = IF build.interface = "mailbox" THEN 24 ELSE 16 * NUM_MAILBOX_QUEUE_SLOT + 72
  BY <1>2, <1>3, <1>4, NoPools, SlotAssumption DEF MailboxBlocks, CbBlock
<1>8. PsAttr.stack_size = 768 /\ OwnPriority.ret # OS_WRAPPER_ERROR
  BY DEF PsAttr, OwnPriority, os_wrapper_thread_new, PS_TEST_TASK_STACK_SIZE,
     OS_WRAPPER_DEFAULT_STACK_SIZE, os_wrapper_thread_get_priority, EffectivePriority,
     thread_attr, osPriorityNone, osPriorityNormal, osPriorityError, OS_WRAPPER_ERROR,
     OS_WRAPPER_SUCCESS
<1>9. SystemObjectsFit
  <2>1. /\ osRtxConfig.timer = <<os_timer_thread_attr, os_timer_mq_attr, OS_TIMER.cb_queue>>
    BY DEF osRtxConfig, HasTimerThread, OS_TIMER
  <2>2. /\ osRtxConfig.timer[1] = os_timer_thread_attr /\ osRtxConfig.timer[2] = os_timer_mq_attr
        /\ osRtxConfig.timer[3] = OS_TIMER.cb_queue
    BY <2>1
  <2>3. os_timer_thread_attr.stack_size = 256 /\ os_idle_thread_attr.stack_size = 256
    BY DEF os_timer_thread_attr, os_idle_thread_attr, OS_THREAD, OS_TIMER
  <2>4. /\ os_idle_thread_attr.cb_size = osRtxThreadCbSize
        /\ os_timer_thread_attr.cb_size = osRtxThreadCbSize
        /\ os_timer_mq_attr.cb_size = osRtxMessageQueueCbSize
        /\ os_timer_mq_attr.mq_size = osRtxMessageQueueMemSize(OS_TIMER.cb_queue, 8)
    BY DEF os_timer_thread_attr, os_idle_thread_attr, os_timer_mq_attr
  <2>5. /\ osRtxThreadCbSize \in Int /\ osRtxMessageQueueCbSize \in Int
        /\ osRtxMessageQueueMemSize(OS_TIMER.cb_queue, 8) \in Int
    BY DEF osRtxThreadCbSize, osRtxMessageQueueCbSize, osRtxMpInfoSize, osRtxMessageQueueMemSize,
       osRtxMessageSize, WordsFor, OS_TIMER
  <2>. QED
    BY <2>2, <2>3, <2>4, <2>5 DEF SystemObjectsFit, StackValid
<1>10. OS_THREAD_LIBSPACE_NUM = 4
  BY DEF OS_THREAD_LIBSPACE_NUM, OS_THREAD
<1>11. \A size : Fits(size) <=> heap + size <= 8192
  BY NoPools DEF Fits
<1>12. MailboxBlocks \in Nat
  BY <1>7, SlotAssumption
<1>. QED
  BY <1>5, <1>6, <1>7, <1>8, <1>9, <1>10, <1>11, <1>12

-----------------------------------------------------------------------------
(* Steps in the C library: they change nothing else. *)

\* The library's callers: main before the kernel runs, and the threads.
LEMMA Callers ==
    /\ Main \in Caller /\ Main \notin ThreadId /\ ThreadId \subseteq Caller
    /\ \A c \in Caller : c = Main \/ c \in ThreadId
    /\ NoId = Main /\ NoSpace = -1 /\ LibSpace = 0 .. 4
BY ThreadIdAssumption, Sizes DEF Caller, NoId, NoSpace, LibSpace

\* What a mutex is, and that no mutex is NULL.
LEMMA MutexKinds ==
    /\ \A s \in SUBSET Caller : [owner |-> s] \in Mutex /\ [owner |-> s] # NULL /\ [owner |-> s].owner = s
    /\ NULL \notin Mutex
BY DEF Mutex, NULL

\* The library's mutex goes to a caller when it is free, and comes back.
LEMMA AcquireResult ==
    ASSUME NEW m \in Mutex, NEW c \in Caller, c \notin m.owner,
           osMutexAcquire(m, c, osWaitForever).status # Blocked
    PROVE  m.owner = {} /\ osMutexAcquire(m, c, osWaitForever).obj = [owner |-> {c}]
<1>1. m # NULL /\ m.owner # {c} /\ m = [owner |-> m.owner]
  BY DEF Mutex, NULL
<1>2. CASE m.owner = {}
  BY <1>1, <1>2 DEF Mutex, osMutexAcquire, osOK, Blocked
<1>3. CASE m.owner # {}
  BY <1>1, <1>3 DEF osMutexAcquire, Blocked, osWaitForever
<1>. QED BY <1>2, <1>3

\* A mutex released by its owner has none.
LEMMA ReleaseResult ==
    ASSUME NEW m \in Mutex, NEW c \in Caller, m.owner = {c}
    PROVE  osMutexRelease(m, c).obj = [owner |-> {}]
<1>1. m # NULL /\ m = [owner |-> m.owner]
  BY DEF Mutex, NULL
<1>. QED
  BY <1>1 DEF osMutexRelease

\* Who may be in the library: main before the scheduler's start, threads after.
LibUser(c) ==
    /\ c \in Caller
    /\ c \in ThreadId => boot = "running" /\ build.compiler = "armclang"
    /\ c = Main => boot \in {"platform", "start"}

\* os_kernel_is_active tells a thread from main.
LEMMA Activity ==
    ASSUME NInv, NEW c, LibUser(c)
    PROVE  /\ os_kernel_is_active <=> c \in ThreadId
           /\ Latch => os_kernel_active' \in {0, 1} /\ (os_kernel_active' = 1 => boot = "running")
<1>1. /\ c \in ThreadId => kernel = osKernelRunning
      /\ c = Main => kernel \in {osKernelInactive, osKernelReady} /\ os_kernel_active = 0
  BY Callers DEF NInv, AppTypeOK, BootOK, LibUser
<1>2. os_kernel_is_active <=> c \in ThreadId
  BY <1>1, Callers DEF LibUser, os_kernel_is_active, osKernelInactive, osKernelReady, osKernelRunning
<1>. QED
  BY <1>2, Callers DEF Latch, LibUser

\* A step in the C library leaves boot, threads, heap and helper as they
\* were.
LEMMA LibFrame ==
    ASSUME NInv, UNCHANGED <<kernel, appVars>>,
           clib_mutex' = NULL <=> clib_mutex = NULL,
           os_kernel_active' = 1 => boot = "running"
    PROVE  BootOK' /\ ThreadsOK' /\ HeapOK' /\ PsOK'
<1>1. BootOK'
  BY DEF NInv, BootOK, appVars
<1>2. ThreadsOK'
  BY DEF NInv, ThreadsOK, appVars
<1>3. PsOK'
  <2>1. RunningTasks' = RunningTasks /\ TestThread' = TestThread
    BY DEF RunningTasks, TestThread, appVars
  <2>. QED
    BY <2>1 DEF NInv, PsOK, appVars
<1>4. HeapOK'
  <2>1. /\ MailboxThreads' = MailboxThreads /\ TestThread' = TestThread
        /\ TaskThreads' = TaskThreads /\ MailboxBlocks' = MailboxBlocks
    BY DEF MailboxThreads, TestThread, TaskThreads, MailboxBlocks, appVars
  <2>2. TaskBytes' = TaskBytes
    BY <2>1, Zenon DEF TaskBytes
  <2>3. /\ KernelBytes' = KernelBytes /\ ClibBytes' = ClibBytes /\ MailboxBytes' = MailboxBytes
        /\ MailboxThreadBytes' = MailboxThreadBytes /\ TestBytes' = TestBytes /\ SemBytes' = SemBytes
    BY <2>1 DEF KernelBytes, ClibBytes, MailboxBytes, MailboxThreadBytes, TestBytes, SemBytes, appVars
  <2>. QED
    BY <2>2, <2>3 DEF NInv, HeapOK, appVars
<1>. QED
  BY <1>1, <1>2, <1>3, <1>4

\* A field of a caller's record is written.
LEMMA SetLib ==
    ASSUME lib \in [Caller -> LibRecord], NEW c \in Caller,
           NEW r \in LibRecord, lib' = [lib EXCEPT ![c] = r]
    PROVE  /\ lib' \in [Caller -> LibRecord] /\ lib'[c] = r
           /\ \A d \in Caller : d # c => lib'[d] = lib[d]
OBVIOUS

\* The fields of a caller's place in the library.
LEMMA LibRecords ==
    ASSUME NEW p \in LibLabel, NEW m \in 0 .. 4, NEW s \in -1 .. 4
    PROVE  LET r == [pc |-> p, n |-> m, space |-> s]
           IN  r \in LibRecord /\ r.pc = p /\ r.n = m /\ r.space = s
BY Callers, Sizes DEF LibRecord

\* What the move of one caller has to keep: its own part of the invariant.
OwnPart(c, r) ==
    /\ r \in LibRecord /\ lib' = [lib EXCEPT ![c] = r]
    /\ r.pc = "out" => r = OutOfLib
    /\ c = Main => r.pc \in {"out", "using", "inside"} /\ (r.pc # "out" => r.space = OS_THREAD_LIBSPACE_NUM)
    /\ os_kernel_active' \in {0, 1} /\ (os_kernel_active' = 1 => boot = "running")
    /\ clib_mutex' \in Mutex \cup {NULL} /\ (clib_mutex' = NULL <=> clib_mutex = NULL)

\* A step in the library keeps the invariant if it keeps the mover's own
\* part of it.
LEMMA LibMove ==
    ASSUME NInv, NEW c, LibUser(c), NEW r, OwnPart(c, r),
           UNCHANGED <<kernel, appVars, os_libspace_id, raced>>,
           c \in ThreadId => SearchOK(c)', MutexOK'
    PROVE  NInv'
<1>1. c \in Caller
  BY DEF LibUser
<1>2. /\ lib' \in [Caller -> LibRecord] /\ lib'[c] = r
      /\ \A d \in Caller : d # c => lib'[d] = lib[d]
  BY <1>1, SetLib DEF OwnPart, NInv, AppTypeOK
<1>3. AppTypeOK'
  BY <1>2 DEF OwnPart, NInv, AppTypeOK, appVars
<1>4. BootOK' /\ ThreadsOK' /\ HeapOK' /\ PsOK'
  BY LibFrame DEF OwnPart
<1>5. LibOK'
  <2>1. ASSUME NEW d \in Caller, lib'[d].pc = "out" PROVE lib'[d] = OutOfLib
    BY <1>2, <2>1 DEF OwnPart, NInv, LibOK
  <2>2. ASSUME NEW d \in ThreadId
        PROVE  /\ lib'[d].pc # "out" => boot' = "running" /\ build'.compiler = "armclang"
               /\ SearchOK(d)'
    <3>1. CASE d = c
      BY <1>2, <2>2, <3>1 DEF LibUser, appVars
    <3>2. CASE d # c
      <4>1. lib'[d] = lib[d]
        BY <1>2, <3>2, Callers
      <4>. QED
        BY <4>1 DEF NInv, LibOK, SearchOK, appVars
    <3>. QED BY <3>1, <3>2
  <2>3. lib'[Main].pc # "out" =>
          /\ boot' \in {"platform", "start"}
          /\ lib'[Main].pc \in {"using", "inside"} /\ lib'[Main].space = OS_THREAD_LIBSPACE_NUM
    <3>1. CASE c = Main
      BY <1>2, <3>1 DEF OwnPart, LibUser, appVars
    <3>2. CASE c # Main
      BY <1>2, <3>2, Callers DEF NInv, LibOK, appVars
    <3>. QED BY <3>1, <3>2
  <2>. QED
    BY <2>1, <2>2, <2>3 DEF LibOK
<1>6. EntriesOK'
  BY DEF NInv, EntriesOK
<1>. QED
  BY <1>3, <1>4, <1>5, <1>6 DEF NInv

\* The mutex stays with a move that neither enters nor leaves the critical section.
LEMMA MutexFrame ==
    ASSUME NInv, NEW c \in Caller, NEW r, OwnPart(c, r),
           UNCHANGED <<kernel, appVars, clib_mutex>>,
           lib[c].pc # "inside", r.pc # "inside"
    PROVE  MutexOK'
<1>1. /\ lib'[c] = r
      /\ \A d \in Caller : d # c => lib'[d] = lib[d]
  BY SetLib DEF OwnPart, NInv, AppTypeOK
<1>2. Inside' = Inside
  BY <1>1 DEF Inside
<1>. HIDE DEF Inside
<1>. QED
  BY <1>2 DEF NInv, MutexOK, appVars

\* The records of callers, before and after.
LEMMA LibFacts ==
    ASSUME NInv, NEW c, LibUser(c)
    PROVE  /\ lib[c] \in LibRecord /\ lib[c].pc \in LibLabel /\ lib[c].n \in 0 .. 4
           /\ lib[c].space \in -1 .. 4
           /\ lib[c] = [pc |-> lib[c].pc, n |-> lib[c].n, space |-> lib[c].space]
           /\ lib[c].pc = "out" => lib[c].n = 0 /\ lib[c].space = -1
           /\ c = Main => lib[c].pc \in {"out", "using", "inside"}
           /\ c = Main /\ lib[c].pc # "out" => lib[c].space = 4
           /\ c \in ThreadId => SearchOK(c)
           /\ clib_mutex \in Mutex \cup {NULL}
           /\ OutOfLib \in LibRecord /\ OutOfLib.pc = "out"
<1>1. lib[c] \in LibRecord /\ clib_mutex \in Mutex \cup {NULL}
  BY DEF NInv, AppTypeOK, LibUser
<1>2. lib[c].pc \in LibLabel /\ lib[c].n \in 0 .. 4 /\ lib[c].space \in -1 .. 4
  BY <1>1, Callers, Sizes DEF LibRecord
<1>3. lib[c] = [pc |-> lib[c].pc, n |-> lib[c].n, space |-> lib[c].space]
  BY <1>1 DEF LibRecord
<1>4. lib[c].pc = "out" => lib[c].n = 0 /\ lib[c].space = -1
  BY Callers DEF NInv, LibOK, LibUser, OutOfLib
<1>5. c \in ThreadId => SearchOK(c)
  BY DEF NInv, LibOK
<1>6. OutOfLib \in LibRecord /\ OutOfLib.pc = "out"
  BY Callers, Sizes DEF OutOfLib, LibRecord, LibLabel
<1>7. c = Main => lib[c].pc \in {"out", "using", "inside"}
  BY <1>2 DEF NInv, LibOK, LibLabel
<1>8. c = Main /\ lib[c].pc # "out" => lib[c].space = 4
  BY Sizes DEF NInv, LibOK
<1>. QED
  BY <1>1, <1>2, <1>3, <1>4, <1>5, <1>6, <1>7, <1>8

\* The label of a record is written.
LEMMA EditPc ==
    ASSUME NEW x \in LibRecord, NEW p
    PROVE  [x EXCEPT !.pc = p] = [pc |-> p, n |-> x.n, space |-> x.space]
BY DEF LibRecord

\* The same kernel flag and the same mutex are still what they have to be.
LEMMA SameKernel ==
    ASSUME NInv
    PROVE  /\ UNCHANGED os_kernel_active =>
                 os_kernel_active' \in {0, 1} /\ (os_kernel_active' = 1 => boot = "running")
           /\ UNCHANGED clib_mutex =>
                 clib_mutex' \in Mutex \cup {NULL} /\ (clib_mutex' = NULL <=> clib_mutex = NULL)
BY DEF NInv, AppTypeOK, BootOK

\* A caller enters __user_perthread_libspace.
LEMMA EnterStep ==
    ASSUME NInv, NEW c, LibUser(c), libspace_enter(c), UNCHANGED <<kernel, appVars>>
    PROVE  NInv'
<1>. DEFINE r == IF c = Main THEN [pc |-> "using", n |-> 0, space |-> 4]
                 ELSE [pc |-> "test", n |-> 0, space |-> -1]
<1>1. /\ c \in Caller /\ lib[c] = [pc |-> "out", n |-> 0, space |-> -1]
  BY LibFacts DEF libspace_enter, LibUser
<1>2. lib' = [lib EXCEPT ![c] = r]
  BY <1>1, Activity, Callers, Sizes DEF libspace_enter, LibGoto
<1>3. /\ r \in LibRecord /\ r.n = 0
      /\ r.pc = IF c = Main THEN "using" ELSE "test"
      /\ c = Main => r.space = 4
  BY LibRecords DEF LibLabel
<1>. HIDE DEF r
<1>4. OwnPart(c, r)
  <2>1. UNCHANGED clib_mutex /\ Latch
    BY DEF libspace_enter
  <2>2. os_kernel_active' \in {0, 1} /\ (os_kernel_active' = 1 => boot = "running")
    BY <2>1, Activity
  <2>. QED
    BY <1>1, <1>2, <1>3, <2>1, <2>2, SameKernel, Sizes DEF OwnPart
<1>5. c \in ThreadId => SearchOK(c)'
  <2>1. c \in ThreadId => lib'[c].pc = "test" /\ lib'[c].n = 0
    BY <1>1, <1>2, <1>3, Callers DEF NInv, AppTypeOK
  <2>. QED
    BY <2>1 DEF SearchOK
<1>6. MutexOK'
  BY <1>1, <1>3, <1>4, MutexFrame DEF libspace_enter
<1>. QED
  BY <1>4, <1>5, <1>6, LibMove DEF libspace_enter

\* The search tests whether an entry is free, and fails after the last.
LEMMA TestStep ==
    ASSUME NInv, NEW c, LibUser(c), libspace_test(c), UNCHANGED <<kernel, appVars>>
    PROVE  NInv'
<1>. DEFINE label == IF lib[c].n = 4 THEN "failed"
                     ELSE IF os_libspace_id[lib[c].n] = NoId THEN "claim" ELSE "compare"
            r == [pc |-> label, n |-> lib[c].n, space |-> lib[c].space]
<1>1. /\ c \in ThreadId /\ c \in Caller /\ lib[c].pc = "test" /\ lib[c].n \in 0 .. 4
      /\ SearchOK(c) /\ lib[c].space \in -1 .. 4
  BY LibFacts, Callers DEF libspace_test, LibUser
<1>2. lib' = [lib EXCEPT ![c] = r]
  <2>1. lib' = [lib EXCEPT ![c] = [lib[c] EXCEPT !.pc = label]]
    BY Sizes DEF libspace_test, LibGoto, osRtxErrorNotify
  <2>. HIDE DEF label
  <2>2. [lib[c] EXCEPT !.pc = label] = r
    BY LibFacts, EditPc
  <2>. QED
    BY <2>1, <2>2
<1>3. r \in LibRecord /\ r.n = lib[c].n /\ r.pc = label
  <2>1. label \in LibLabel
    BY DEF LibLabel
  <2>. HIDE DEF label
  <2>. QED
    BY <1>1, <2>1, LibRecords
<1>4. lib'[c] = r
  BY <1>1, <1>2 DEF NInv, AppTypeOK
<1>. HIDE DEF r
<1>5. OwnPart(c, r)
  BY <1>1, <1>2, <1>3, Callers, SameKernel DEF OwnPart, libspace_test
<1>6. SearchOK(c)'
  <2>1. lib'[c].pc = label /\ lib'[c].n = lib[c].n /\ os_libspace_id' = os_libspace_id
    BY <1>3, <1>4 DEF libspace_test
  <2>2. \A j \in 0 .. lib[c].n - 1 : os_libspace_id[j] # NoId /\ os_libspace_id[j] # c
    BY <1>1 DEF SearchOK
  <2>3. DOMAIN os_libspace_id = 0 .. 3
    BY Sizes DEF NInv, AppTypeOK
  <2>4. label = "claim" => \A j \in DOMAIN os_libspace_id : os_libspace_id[j] # c
    <3>. SUFFICES ASSUME label = "claim", NEW j \in 0 .. 3 PROVE os_libspace_id[j] # c
      BY <2>3
    <3>1. os_libspace_id[lib[c].n] = NoId /\ lib[c].n \in 0 .. 3
      BY <1>1
    <3>2. CASE j < lib[c].n
      BY <1>1, <2>2, <3>2
    <3>3. CASE j >= lib[c].n
      <4>1. os_libspace_id[j] = NoId
        BY <2>3, <3>1, <3>3 DEF NInv, EntriesOK
      <4>. QED BY <1>1, <4>1, Callers
    <3>. QED BY <1>1, <3>2, <3>3
  <2>. QED
    BY <1>1, <2>1, <2>2, <2>3, <2>4, Sizes DEF SearchOK
<1>7. MutexOK'
  BY <1>1, <1>3, <1>5, MutexFrame DEF libspace_test
<1>. QED
  BY <1>5, <1>6, <1>7, LibMove DEF libspace_test

\* The search compares an entry with the caller's thread and goes on if it
\* is another's.
LEMMA CompareStep ==
    ASSUME NInv, NEW c, LibUser(c), libspace_compare(c), UNCHANGED <<kernel, appVars>>
    PROVE  NInv'
<1>. DEFINE own == os_libspace_id[lib[c].n] = c
<1>1. /\ c \in ThreadId /\ c \in Caller /\ lib[c].pc = "compare" /\ lib[c].n \in 0 .. 3
      /\ SearchOK(c) /\ lib[c].space \in -1 .. 4
  <2>1. /\ c \in ThreadId /\ c \in Caller /\ lib[c].pc = "compare" /\ lib[c].n \in 0 .. 4
        /\ SearchOK(c) /\ lib[c].space \in -1 .. 4
    BY LibFacts, Callers DEF libspace_compare, LibUser
  <2>. QED
    BY <2>1, Sizes DEF SearchOK
<1>2. lib \in [Caller -> LibRecord] /\ lib[c] \in LibRecord
  BY <1>1 DEF NInv, AppTypeOK
<1>3. /\ DOMAIN lib' = Caller
      /\ lib'[c] = IF own THEN [lib[c] EXCEPT !.pc = "using", !.space = lib[c].n]
                   ELSE [lib[c] EXCEPT !.pc = "test", !.n = lib[c].n + 1]
      /\ \A d \in Caller : d # c => lib'[d] = lib[d]
  BY <1>1, <1>2 DEF libspace_compare
<1>4. PICK r : r = lib'[c]
  OBVIOUS
<1>5. r.pc = (IF own THEN "using" ELSE "test") /\ (own => r.space = lib[c].n) /\ (~own => r.n = lib[c].n + 1)
  <2>. HIDE DEF own
  <2>. QED
    BY <1>2, <1>3, <1>4 DEF LibRecord
<1>6. r \in LibRecord /\ lib' = [lib EXCEPT ![c] = r]
  <2>1. r \in LibRecord
    <3>. DEFINE B == 0 .. OS_THREAD_LIBSPACE_NUM
                C == LibSpace \cup {NoSpace}
    <3>1. "using" \in LibLabel /\ "test" \in LibLabel /\ lib[c].n \in C /\ lib[c].n + 1 \in B
      BY <1>1, Callers, Sizes DEF LibLabel
    <3>2. lib[c] \in [pc : LibLabel, n : B, space : C]
      BY <1>2 DEF LibRecord
    <3>. HIDE DEF B, C, own
    <3>3. r \in [pc : LibLabel, n : B, space : C]
      BY <1>3, <1>4, <3>1, <3>2
    <3>. QED BY <3>3 DEF LibRecord, B, C
  <2>2. lib' = [d \in Caller |-> lib'[d]]
    BY <1>2 DEF libspace_compare
  <2>3. lib' = [lib EXCEPT ![c] = r]
    BY <1>1, <1>2, <1>3, <1>4, <2>2
  <2>. QED BY <2>1, <2>3
<1>7. OwnPart(c, r)
  BY <1>1, <1>5, <1>6, Callers, SameKernel DEF OwnPart, libspace_compare
<1>8. SearchOK(c)'
  <2>1. /\ lib'[c].pc = IF own THEN "using" ELSE "test"
        /\ own => lib'[c].space = lib[c].n
        /\ ~own => lib'[c].n = lib[c].n + 1
        /\ os_libspace_id' = os_libspace_id
    BY <1>4, <1>5 DEF libspace_compare
  <2>2. /\ \A j \in 0 .. lib[c].n - 1 : os_libspace_id[j] # NoId /\ os_libspace_id[j] # c
        /\ os_libspace_id[lib[c].n] # NoId
    BY <1>1 DEF SearchOK
  <2>3. DOMAIN os_libspace_id = 0 .. 3
    BY Sizes DEF NInv, AppTypeOK
  <2>. QED
    BY <1>1, <2>1, <2>2, <2>3 DEF SearchOK
<1>9. MutexOK'
  BY <1>1, <1>5, <1>7, MutexFrame DEF libspace_compare
<1>. QED
  BY <1>7, <1>8, <1>9, LibMove DEF libspace_compare

\* A caller leaves the library.
LEMMA ReturnStep ==
    ASSUME NInv, NEW c, LibUser(c), lib_return(c), UNCHANGED <<kernel, appVars>>
    PROVE  NInv'
<1>1. c \in Caller /\ lib[c].pc = "using"
  BY DEF lib_return, LibUser
<1>2. lib' = [lib EXCEPT ![c] = OutOfLib] /\ OutOfLib \in LibRecord /\ OutOfLib.pc = "out"
  BY LibFacts DEF lib_return
<1>3. lib'[c].pc = "out"
  BY <1>1, <1>2 DEF NInv, AppTypeOK
<1>4. OwnPart(c, OutOfLib)
  BY <1>2, SameKernel DEF OwnPart, lib_return
<1>5. SearchOK(c)'
  BY <1>3 DEF SearchOK
<1>6. MutexOK'
  BY <1>1, <1>2, <1>4, MutexFrame DEF lib_return
<1>. QED
  BY <1>4, <1>5, <1>6, LibMove DEF lib_return

\* The claim of an entry: whoever it belonged to has lost it.
LEMMA ClaimStep ==
    ASSUME NInv, NEW c, LibUser(c), libspace_claim(c), UNCHANGED <<kernel, appVars>>
    PROVE  NInv'
<1>. DEFINE n == lib[c].n
            r == [pc |-> "compare", n |-> n, space |-> lib[c].space]
<1>1. /\ c \in ThreadId /\ c \in Caller /\ lib[c].pc = "claim" /\ n \in 0 .. 3
      /\ lib[c].space \in -1 .. 4 /\ c # NoId
      /\ \A j \in 0 .. n - 1 : os_libspace_id[j] # NoId /\ os_libspace_id[j] # c
      /\ \A j \in 0 .. 3 : os_libspace_id[j] # c
  <2>1. /\ c \in ThreadId /\ c \in Caller /\ lib[c].pc = "claim" /\ lib[c].n \in 0 .. 4
        /\ SearchOK(c) /\ lib[c].space \in -1 .. 4 /\ c # NoId
    BY LibFacts, Callers DEF libspace_claim, LibUser
  <2>2. DOMAIN os_libspace_id = 0 .. 3
    BY Sizes DEF NInv, AppTypeOK
  <2>. QED
    BY <2>1, <2>2, Sizes DEF SearchOK
<1>2. lib' = [lib EXCEPT ![c] = r]
  <2>1. lib' = [lib EXCEPT ![c] = [lib[c] EXCEPT !.pc = "compare"]]
    BY DEF libspace_claim, LibGoto
  <2>2. [lib[c] EXCEPT !.pc = "compare"] = r
    BY LibFacts, EditPc
  <2>. QED
    BY <2>1, <2>2
<1>3. r \in LibRecord /\ r.pc = "compare" /\ r.n = n
  <2>1. "compare" \in LibLabel /\ n \in 0 .. 4
    BY <1>1 DEF LibLabel
  <2>. QED
    BY <1>1, <2>1, LibRecords
<1>. HIDE DEF r
<1>4. /\ lib' \in [Caller -> LibRecord] /\ lib'[c] = r
      /\ \A d \in Caller : d # c => lib'[d] = lib[d]
  BY <1>1, <1>2, <1>3, SetLib DEF NInv, AppTypeOK
<1>5. /\ os_libspace_id \in [0 .. 3 -> Caller] /\ os_libspace_id' \in [0 .. 3 -> Caller]
      /\ os_libspace_id'[n] = c
      /\ \A j \in 0 .. 3 : j # n => os_libspace_id'[j] = os_libspace_id[j]
      /\ DOMAIN os_libspace_id = 0 .. 3 /\ DOMAIN os_libspace_id' = 0 .. 3
      /\ ~raced' => ~raced /\ os_libspace_id[n] = NoId
      /\ raced' \in BOOLEAN
  <2>1. os_libspace_id \in [0 .. 3 -> Caller] /\ raced \in BOOLEAN
    BY Sizes DEF NInv, AppTypeOK
  <2>2. raced' \in BOOLEAN /\ (~raced' => ~raced /\ os_libspace_id[n] = NoId)
    BY <2>1, Zenon DEF libspace_claim
  <2>. QED
    BY <1>1, <2>1, <2>2 DEF libspace_claim
<1>. HIDE DEF n
<1>6. OwnPart(c, r)
  BY <1>1, <1>2, <1>3, Callers, SameKernel DEF OwnPart, libspace_claim
<1>7. AppTypeOK'
  BY <1>4, <1>5, <1>6, Sizes DEF OwnPart, NInv, AppTypeOK, appVars
<1>8. BootOK' /\ ThreadsOK' /\ HeapOK' /\ PsOK'
  BY <1>6, LibFrame DEF OwnPart
<1>9. LibOK'
  <2>1. ASSUME NEW d \in Caller, lib'[d].pc = "out" PROVE lib'[d] = OutOfLib
    BY <1>3, <1>4, <2>1 DEF NInv, LibOK
  <2>2. SearchOK(c)'
    <3>1. lib'[c].pc = "compare" /\ lib'[c].n = n
      BY <1>3, <1>4
    <3>. QED
      BY <1>1, <1>5, <3>1, Sizes DEF SearchOK
  <2>3. ASSUME NEW d \in ThreadId, d # c PROVE SearchOK(d)'
    <3>1. lib'[d] = lib[d] /\ SearchOK(d) /\ lib[d].n \in 0 .. 4 /\ d # NoId
      BY <1>4, <2>3, Callers, Sizes DEF NInv, LibOK, AppTypeOK, LibRecord
    <3>2. \A j \in 0 .. 3 : os_libspace_id'[j] = c \/ os_libspace_id'[j] = os_libspace_id[j]
      BY <1>5
    <3>3. lib[d].pc \in {"test", "claim", "compare", "failed"} =>
             \A j \in 0 .. lib[d].n - 1 : os_libspace_id'[j] # NoId /\ os_libspace_id'[j] # d
      BY <1>1, <2>3, <3>1, <3>2 DEF SearchOK
    <3>4. lib[d].pc = "claim" => \A j \in 0 .. 3 : os_libspace_id'[j] # d
      BY <1>1, <1>5, <2>3, <3>1, <3>2 DEF SearchOK
    <3>5. lib[d].pc = "compare" => os_libspace_id'[lib[d].n] # NoId
      BY <1>1, <3>1, <3>2, Sizes DEF SearchOK
    <3>6. lib[d].pc \in {"using", "inside"} /\ ~raced' =>
             lib[d].space \in 0 .. 3 /\ os_libspace_id'[lib[d].space] = d
      BY <1>1, <1>5, <3>1 DEF SearchOK
    <3>. QED
      BY <1>5, <3>1, <3>3, <3>4, <3>5, <3>6 DEF SearchOK
  <2>4. \A d \in ThreadId : lib'[d].pc # "out" => boot' = "running" /\ build'.compiler = "armclang"
    BY <1>4, Callers DEF NInv, LibOK, LibUser, appVars
  <2>5. lib'[Main].pc # "out" =>
          /\ boot' \in {"platform", "start"}
          /\ lib'[Main].pc \in {"using", "inside"} /\ lib'[Main].space = OS_THREAD_LIBSPACE_NUM
    BY <1>1, <1>4, Callers DEF NInv, LibOK, appVars
  <2>. QED
    BY <2>1, <2>2, <2>3, <2>4, <2>5 DEF LibOK
<1>10. EntriesOK'
  <2>. SUFFICES ASSUME NEW j \in 0 .. 3, NEW k \in 0 .. 3, os_libspace_id'[k] # NoId
                PROVE  /\ j < k => os_libspace_id'[j] # NoId
                       /\ os_libspace_id'[j] = os_libspace_id'[k] => j = k
    BY <1>5 DEF EntriesOK
  <2>1. /\ os_libspace_id[k] # NoId /\ j < k => os_libspace_id[j] # NoId
        /\ os_libspace_id[k] # NoId /\ os_libspace_id[j] = os_libspace_id[k] => j = k
    BY <1>5 DEF NInv, EntriesOK
  <2>. QED
    BY <1>1, <1>5, <2>1
<1>11. MutexOK'
  BY <1>1, <1>3, <1>6, MutexFrame DEF libspace_claim
<1>. QED
  BY <1>7, <1>8, <1>9, <1>10, <1>11 DEF NInv

\* For a thread in the library the mutex exists and is with whom is inside.
LEMMA ThreadMutex ==
    ASSUME NInv, NEW c \in ThreadId, LibUser(c)
    PROVE  /\ clib_mutex \in Mutex /\ clib_mutex # NULL /\ clib_mutex.owner = Inside
           /\ boot = "running" /\ kernel = osKernelRunning
           /\ \A x, y \in Inside : x = y
<1>1. boot = "running" /\ kernel = osKernelRunning /\ clib_mutex # NULL
  BY DEF NInv, BootOK, LibUser
<1>. QED
  BY <1>1 DEF NInv, AppTypeOK, MutexOK

\* main never uses the library while the kernel runs.
LEMMA MainMutex ==
    ASSUME NInv, LibUser(Main)
    PROVE  boot # "running" /\ kernel # osKernelRunning
BY Callers DEF NInv, BootOK, LibUser

\* A thread takes the library's mutex; main, before the kernel runs, goes on
\* without.
LEMMA AcquireStep ==
    ASSUME NInv, NEW c, LibUser(c), _mutex_acquire(c), UNCHANGED <<kernel, appVars>>
    PROVE  NInv'
<1>. DEFINE r == [pc |-> "inside", n |-> lib[c].n, space |-> lib[c].space]
<1>1. c \in Caller /\ lib[c].pc = "using" /\ lib[c].n \in 0 .. 4 /\ lib[c].space \in -1 .. 4
  BY LibFacts DEF _mutex_acquire, LibUser
<1>2. lib' = [lib EXCEPT ![c] = r]
  <2>1. lib' = [lib EXCEPT ![c] = [lib[c] EXCEPT !.pc = "inside"]]
    BY DEF _mutex_acquire, LibGoto
  <2>2. [lib[c] EXCEPT !.pc = "inside"] = r
    BY LibFacts, EditPc
  <2>. QED
    BY <2>1, <2>2
<1>3. r \in LibRecord /\ r.pc = "inside" /\ r.n = lib[c].n /\ r.space = lib[c].space
  <2>1. "inside" \in LibLabel
    BY DEF LibLabel
  <2>. QED
    BY <1>1, <2>1, LibRecords
<1>. HIDE DEF r
<1>4. /\ lib' \in [Caller -> LibRecord] /\ lib'[c] = r
      /\ \A d \in Caller : d # c => lib'[d] = lib[d]
  BY <1>1, <1>2, <1>3, SetLib DEF NInv, AppTypeOK
<1>5. c \in ThreadId => Inside = {} /\ clib_mutex' = [owner |-> {c}]
  <2>. SUFFICES ASSUME c \in ThreadId PROVE Inside = {} /\ clib_mutex' = [owner |-> {c}]
    OBVIOUS
  <2>1. os_kernel_is_active
    BY Activity
  <2>2. /\ osMutexAcquire(clib_mutex, c, osWaitForever).status # Blocked
        /\ clib_mutex' = osMutexAcquire(clib_mutex, c, osWaitForever).obj
    BY <2>1 DEF _mutex_acquire
  <2>3. clib_mutex \in Mutex /\ clib_mutex.owner = Inside
    BY ThreadMutex
  <2>4. c \notin clib_mutex.owner
    BY <1>1, <2>3 DEF Inside
  <2>5. clib_mutex.owner = {} /\ clib_mutex' = [owner |-> {c}]
    BY <1>1, <2>2, <2>3, <2>4, AcquireResult
  <2>. QED
    BY <2>3, <2>5
<1>6. c = Main => clib_mutex' = clib_mutex
  BY Activity, Callers DEF _mutex_acquire
<1>7. clib_mutex' \in Mutex \cup {NULL} /\ (clib_mutex' = NULL <=> clib_mutex = NULL)
  <2>1. CASE c = Main
    BY <1>6, <2>1, SameKernel
  <2>2. CASE c \in ThreadId
    BY <1>1, <1>5, <2>2, ThreadMutex, MutexKinds
  <2>. QED BY <1>1, <2>1, <2>2, Callers
<1>8. OwnPart(c, r)
  <2>1. os_kernel_active' \in {0, 1} /\ (os_kernel_active' = 1 => boot = "running")
    BY Activity DEF _mutex_acquire
  <2>2. c = Main => lib[c].space = OS_THREAD_LIBSPACE_NUM
    BY <1>1 DEF NInv, LibOK
  <2>. QED
    BY <1>2, <1>3, <1>7, <2>1, <2>2 DEF OwnPart
<1>9. c \in ThreadId => SearchOK(c)'
  <2>1. UNCHANGED <<os_libspace_id, raced>>
    BY DEF _mutex_acquire
  <2>2. c \in ThreadId => SearchOK(c)
    BY LibFacts
  <2>. QED
    BY <1>1, <1>3, <1>4, <2>1, <2>2 DEF SearchOK
<1>10. MutexOK'
  <2>1. CASE c = Main
    <3>1. boot' # "running" /\ kernel' # osKernelRunning /\ kernel # osKernelRunning /\ clib_mutex' = clib_mutex
      BY <1>6, <2>1, MainMutex DEF appVars
    <3>. QED
      BY <3>1 DEF NInv, MutexOK
  <2>2. CASE c \in ThreadId
    <3>1. Inside' = {c}
      BY <1>1, <1>3, <1>4, <1>5, <2>2 DEF Inside
    <3>2. clib_mutex'.owner = {c} /\ kernel' = osKernelRunning
      BY <1>1, <1>5, <2>2, MutexKinds, ThreadMutex
    <3>. HIDE DEF Inside
    <3>. QED
      BY <3>1, <3>2 DEF MutexOK
  <2>. QED BY <1>1, <2>1, <2>2, Callers
<1>. QED
  BY <1>8, <1>9, <1>10, LibMove DEF _mutex_acquire

\* The owner gives the library's mutex back.
LEMMA ReleaseStep ==
    ASSUME NInv, NEW c, LibUser(c), _mutex_release(c), UNCHANGED <<kernel, appVars>>
    PROVE  NInv'
<1>1. c \in Caller /\ lib[c].pc = "inside"
  BY DEF _mutex_release, LibUser
<1>2. lib' = [lib EXCEPT ![c] = OutOfLib] /\ OutOfLib \in LibRecord /\ OutOfLib.pc = "out"
  BY LibFacts DEF _mutex_release
<1>3. /\ lib'[c].pc = "out"
      /\ \A d \in Caller : d # c => lib'[d] = lib[d]
  BY <1>1, <1>2 DEF NInv, AppTypeOK
<1>4. c \in ThreadId => Inside = {c} /\ clib_mutex' = [owner |-> {}]
  <2>. SUFFICES ASSUME c \in ThreadId PROVE Inside = {c} /\ clib_mutex' = [owner |-> {}]
    OBVIOUS
  <2>1. clib_mutex' = osMutexRelease(clib_mutex, c).obj
    BY Activity DEF _mutex_release
  <2>2. /\ clib_mutex \in Mutex /\ clib_mutex.owner = Inside
        /\ \A x, y \in Inside : x = y
    BY ThreadMutex
  <2>3. Inside = {c}
    BY <1>1, <2>2 DEF Inside
  <2>. QED
    BY <1>1, <2>1, <2>2, <2>3, ReleaseResult
<1>5. c = Main => clib_mutex' = clib_mutex
  BY Activity, Callers DEF _mutex_release
<1>6. clib_mutex' \in Mutex \cup {NULL} /\ (clib_mutex' = NULL <=> clib_mutex = NULL)
  <2>1. CASE c = Main
    BY <1>5, <2>1, SameKernel
  <2>2. CASE c \in ThreadId
    BY <1>1, <1>4, <2>2, ThreadMutex, MutexKinds
  <2>. QED BY <1>1, <2>1, <2>2, Callers
<1>7. OwnPart(c, OutOfLib)
  <2>1. os_kernel_active' \in {0, 1} /\ (os_kernel_active' = 1 => boot = "running")
    BY Activity DEF _mutex_release
  <2>. QED
    BY <1>2, <1>6, <2>1 DEF OwnPart
<1>8. SearchOK(c)'
  BY <1>3 DEF SearchOK
<1>9. MutexOK'
  <2>1. CASE c = Main
    <3>1. boot' # "running" /\ kernel' # osKernelRunning /\ kernel # osKernelRunning /\ clib_mutex' = clib_mutex
      BY <1>5, <2>1, MainMutex DEF appVars
    <3>. QED
      BY <3>1 DEF NInv, MutexOK
  <2>2. CASE c \in ThreadId
    <3>1. Inside' = {}
      BY <1>1, <1>3, <1>4, <2>2 DEF Inside
    <3>2. clib_mutex'.owner = {} /\ kernel' = osKernelRunning
      BY <1>4, <2>2, MutexKinds, ThreadMutex
    <3>. HIDE DEF Inside
    <3>. QED
      BY <3>1, <3>2 DEF MutexOK
  <2>. QED BY <1>1, <2>1, <2>2, Callers
<1>. QED
  BY <1>7, <1>8, <1>9, LibMove DEF _mutex_release

\* Every step of a caller in the library.
LEMMA LibraryStep ==
    ASSUME NInv, NEW c \in Caller, call_library(c) \/ library_step(c),
           c = Main => boot # "running", c \in ThreadId => boot = "running"
    PROVE  NInv'
<1>1. CASE call_library(c)
  <2>1. LibUser(c)
    BY <1>1, Callers DEF call_library, MayCallLib, LibUser
  <2>. QED
    BY <1>1, <2>1, EnterStep DEF call_library
<1>2. CASE library_step(c)
  <2>1. lib[c].pc # "out"
    BY <1>2 DEF library_step, LibStep, libspace_test, libspace_claim, libspace_compare,
                _mutex_acquire, _mutex_release, lib_return
  <2>2. LibUser(c)
    BY <2>1 DEF NInv, LibOK, LibUser
  <2>. QED
    BY <1>2, <2>2, TestStep, ClaimStep, CompareStep, AcquireStep, ReleaseStep, ReturnStep
       DEF library_step, LibStep
<1>. QED BY <1>1, <1>2

-----------------------------------------------------------------------------
(* Memory and addresses. *)

\* What the mailbox takes is a number of bytes.
LEMMA MailboxSize == MailboxBlocks \in Nat
BY Sizes

\* The threads of each role can be counted.
LEMMA FiniteThreads ==
    /\ IsFiniteSet(TaskThreads) /\ Cardinality(TaskThreads) \in Nat
    /\ IsFiniteSet(TestThread) /\ Cardinality(TestThread) \in Nat
    /\ IsFiniteSet(MailboxThreads) /\ Cardinality(MailboxThreads) \in Nat
<1>1. TaskThreads \subseteq ThreadId /\ TestThread \subseteq ThreadId /\ MailboxThreads \subseteq ThreadId
  BY DEF TaskThreads, TestThread, MailboxThreads
<1>2. IsFiniteSet(TaskThreads) /\ IsFiniteSet(TestThread) /\ IsFiniteSet(MailboxThreads)
  BY <1>1, ThreadIdAssumption, FS_Subset
<1>. QED
  BY <1>2, FS_CardinalityType

\* Each entry of the account of os_mem is a number of bytes.
LEMMA ByteTypes ==
    ASSUME NInv
    PROVE  /\ KernelBytes \in Nat /\ ClibBytes \in Nat /\ MailboxBytes \in Nat /\ SemBytes \in Nat
           /\ MailboxThreadBytes \in Nat /\ TestBytes \in Nat /\ TaskBytes \in Nat
           /\ TaskBytes = 856 * Cardinality(TaskThreads)
           /\ heap \in Int
<1>1. TaskBytes \in Nat
  BY FiniteThreads DEF TaskBytes
<1>2. MailboxBytes \in Nat
  <2>1. MailboxBlocks \in Nat
    BY Sizes
  <2>. QED BY <2>1 DEF MailboxBytes
<1>3. heap \in Int
  BY DEF NInv, AppTypeOK
<1>4. KernelBytes \in Nat /\ ClibBytes \in Nat /\ SemBytes \in Nat
  BY DEF KernelBytes, ClibBytes, SemBytes
<1>5. MailboxThreadBytes \in Nat /\ TestBytes \in Nat
  BY DEF MailboxThreadBytes, TestBytes
<1>6. TaskBytes = 856 * Cardinality(TaskThreads)
  BY DEF TaskBytes
<1>. QED
  BY <1>1, <1>2, <1>3, <1>4, <1>5, <1>6

\* A set whose members are all the same has one member at most.
LEMMA AtMostOne ==
    ASSUME NEW S, \A a, b \in S : a = b
    PROVE  Cardinality(S) \in 0 .. 1 /\ (S # {} => Cardinality(S) = 1) /\ (S = {} => Cardinality(S) = 0)
<1>1. CASE S = {}
  <2>1. Cardinality(S) = 0
    BY <1>1, FS_EmptySet, Zenon
  <2>. QED BY <1>1, <2>1
<1>2. CASE S # {}
  <2>1. PICK a : S = {a}
    BY <1>2
  <2>2. Cardinality({a}) = 1
    BY FS_Singleton
  <2>3. Cardinality(S) = 1
    BY <2>1, <2>2, Zenon
  <2>. QED BY <1>2, <2>3
<1>. QED BY <1>1, <1>2

\* When a thread's memory fits there is an address for its control block.
RoomForThread == heap + 856 <= 8192

\* While there is room for a thread there is an address for it.
LEMMA FreeAddress ==
    ASSUME NInv, boot # "halt", RoomForThread, TestThread # {} \/ TaskThreads = {}
    PROVE  NextId \in ThreadId /\ threads[NextId] = "none"
<1>. DEFINE Free == ThreadId \ Live
<1>1. /\ Cardinality(TestThread) \in 0 .. 1 /\ (TestThread # {} => Cardinality(TestThread) = 1)
      /\ TestThread = {} => Cardinality(TestThread) = 0
  <2>1. \A a, b \in TestThread : a = b
    BY DEF NInv, ThreadsOK, TestThread
  <2>. QED BY <2>1, AtMostOne
<1>2. /\ Cardinality(MailboxThreads) \in 0 .. 1 /\ (MailboxThreads # {} => Cardinality(MailboxThreads) = 1)
      /\ MailboxThreads = {} => Cardinality(MailboxThreads) = 0
  <2>1. \A a, b \in MailboxThreads : a = b
    BY DEF NInv, ThreadsOK, MailboxThreads
  <2>. QED BY <2>1, AtMostOne
<1>3. TaskThreads = {} => Cardinality(TaskThreads) = 0
  BY FS_EmptySet, Zenon
<1>4. Cardinality(TaskThreads) + Cardinality(TestThread) + Cardinality(MailboxThreads) <= 4
  <2>1. heap >= MailboxThreadBytes + TestBytes + TaskBytes /\ TaskBytes = 856 * Cardinality(TaskThreads)
    BY ByteTypes DEF NInv, HeapOK
  <2>2. /\ TestBytes = 4184 * Cardinality(TestThread)
        /\ MailboxThreadBytes = 1112 * Cardinality(MailboxThreads)
    BY <1>1, <1>2 DEF TestBytes, MailboxThreadBytes
  <2>3. 856 * Cardinality(TaskThreads) + 4184 * Cardinality(TestThread)
          + 1112 * Cardinality(MailboxThreads) <= 7336
    <3>1. heap \in Int /\ TaskBytes \in Nat /\ TestBytes \in Nat /\ MailboxThreadBytes \in Nat
      BY ByteTypes
    <3>. QED
      BY <2>1, <2>2, <3>1 DEF RoomForThread
  <2>4. Cardinality(TaskThreads) \in Nat
    BY FiniteThreads
  <2>5. Cardinality(TestThread) = 1 \/ Cardinality(TaskThreads) = 0
    BY <1>1, <1>3
  <2>6. \A t, m \in 0 .. 1 : \A n \in Nat :
           856 * n + 4184 * t + 1112 * m <= 7336 /\ (t = 1 \/ n = 0) => n + t + m <= 4
    OBVIOUS
  <2>7. Cardinality(TestThread) \in 0 .. 1 /\ Cardinality(MailboxThreads) \in 0 .. 1
    BY <1>1, <1>2
  <2>. QED
    BY <2>3, <2>4, <2>5, <2>6, <2>7
<1>5. Live = (TaskThreads \cup TestThread) \cup MailboxThreads
  BY DEF Live, TaskThreads, TestThread, MailboxThreads, NInv, AppTypeOK, Roles
<1>6. /\ IsFiniteSet(TaskThreads \cup TestThread)
      /\ Cardinality(TaskThreads \cup TestThread) <= Cardinality(TaskThreads) + Cardinality(TestThread)
      /\ Cardinality(TaskThreads \cup TestThread) \in Nat
  <2>1. IsFiniteSet(TaskThreads \cap TestThread) /\ Cardinality(TaskThreads \cap TestThread) \in Nat
    BY FiniteThreads, FS_Intersection, FS_CardinalityType
  <2>2. /\ IsFiniteSet(TaskThreads \cup TestThread)
        /\ Cardinality(TaskThreads \cup TestThread)
             = Cardinality(TaskThreads) + Cardinality(TestThread) - Cardinality(TaskThreads \cap TestThread)
    BY FiniteThreads, FS_Union
  <2>. QED
    BY <2>1, <2>2, FiniteThreads, FS_CardinalityType
<1>7. /\ Cardinality(Live) <= Cardinality(TaskThreads) + Cardinality(TestThread) + Cardinality(MailboxThreads)
  <2>. DEFINE A == TaskThreads \cup TestThread
  <2>. HIDE DEF A
  <2>0. IsFiniteSet(A) /\ Cardinality(A) <= Cardinality(TaskThreads) + Cardinality(TestThread)
        /\ Cardinality(A) \in Nat
    BY <1>6 DEF A
  <2>1. IsFiniteSet(A \cap MailboxThreads) /\ Cardinality(A \cap MailboxThreads) \in Nat
    BY <2>0, FiniteThreads, FS_Intersection, FS_CardinalityType
  <2>2. Cardinality(A \cup MailboxThreads)
             = Cardinality(A) + Cardinality(MailboxThreads) - Cardinality(A \cap MailboxThreads)
    BY <2>0, FiniteThreads, FS_Union
  <2>3. Cardinality(Live) = Cardinality(A \cup MailboxThreads)
    BY <1>5, Zenon DEF A
  <2>. QED
    BY <2>0, <2>1, <2>2, <2>3, FiniteThreads
<1>8. Live # ThreadId
  <2>1. SUFFICES ASSUME Live = ThreadId PROVE FALSE
    OBVIOUS
  <2>2. Cardinality(Live) = Cardinality(ThreadId)
    BY <2>1, Zenon
  <2>3. Cardinality(ThreadId) \in Nat
    BY ThreadIdAssumption, FS_CardinalityType
  <2>. QED
    BY <1>4, <1>7, <2>2, <2>3, AddressAssumption, FiniteThreads
<1>9. Free \subseteq Nat /\ Free # {}
  BY <1>8, ThreadIdAssumption DEF Live
<1>10. \E id \in Free : \A free \in Free : id <= free
  <2>. HIDE DEF Free
  <2>. QED BY <1>9, LeastNumber
<1>11. NextId \in Free
  BY <1>10 DEF NextId
<1>. QED
  BY <1>11 DEF Live

-----------------------------------------------------------------------------
(* main's steps, up to the scheduler's start. *)

\* Before the scheduler's start there are no tasks, and nobody is in the library.
LEMMA BootFacts ==
    ASSUME NInv, boot # "running"
    PROVE  /\ TaskThreads = {} /\ RunningTasks = {} /\ ps = "idle" /\ test_semaphore = NULL
           /\ TaskBytes = 0 /\ SemBytes = 0
           /\ boot # "start" => TestThread = {} /\ TestBytes = 0
           /\ boot \notin {"test_thread", "start"} => MailboxThreads = {} /\ MailboxThreadBytes = 0
           /\ \A c \in ThreadId : lib[c].pc = "out"
           /\ kernel \in {osKernelInactive, osKernelReady} /\ kernel # osKernelRunning
<1>1. TaskThreads = {} /\ (boot # "start" => TestThread = {})
      /\ (boot \notin {"test_thread", "start"} => MailboxThreads = {})
  BY DEF NInv, ThreadsOK, TaskThreads, TestThread, MailboxThreads
<1>2. ps = "idle" /\ test_semaphore = NULL /\ RunningTasks = {}
  BY DEF NInv, PsOK
<1>3. TaskBytes = 0
  <2>1. Cardinality(TaskThreads) = 0
    BY <1>1, FS_EmptySet, Zenon
  <2>. QED
    BY <2>1 DEF TaskBytes
<1>4. SemBytes = 0
  BY <1>2 DEF SemBytes
<1>5. /\ boot # "start" => TestBytes = 0
      /\ boot \notin {"test_thread", "start"} => MailboxThreadBytes = 0
  <2>1. (TestThread = {} => TestBytes = 0) /\ (MailboxThreads = {} => MailboxThreadBytes = 0)
    BY DEF TestBytes, MailboxThreadBytes
  <2>. QED BY <1>1, <2>1
<1>6. \A c \in ThreadId : lib[c].pc = "out"
  BY DEF NInv, LibOK
<1>7. kernel \in {osKernelInactive, osKernelReady} /\ kernel # osKernelRunning
  BY DEF NInv, BootOK, AppTypeOK
<1>. QED
  BY <1>1, <1>2, <1>3, <1>4, <1>5, <1>6, <1>7

\* What main's steps leave alone.
BootQuiet ==
    /\ UNCHANGED <<os_kernel_active, os_libspace_id, lib, raced>>
    /\ UNCHANGED <<build, child, ps, test_semaphore, tasks, starved>>

\* A step of main leaves what the library and the helper need.
LEMMA BootFrame ==
    ASSUME NInv, boot # "running", lib[Main].pc = "out", BootQuiet,
           clib_mutex' = clib_mutex \/ clib_mutex' = osMutexNew
    PROVE  LibOK' /\ EntriesOK' /\ MutexOK' /\ PsOK'
<1>1. \A c \in Caller : lib[c].pc = "out" /\ lib'[c].pc = "out"
  BY BootFacts, Callers DEF BootQuiet
<1>2. LibOK'
  <2>1. \A c \in Caller : lib'[c] = OutOfLib
    BY <1>1 DEF BootQuiet, NInv, LibOK
  <2>2. \A c \in ThreadId : SearchOK(c)'
    BY <1>1, Callers DEF SearchOK
  <2>. QED
    BY <1>1, <2>1, <2>2, Callers DEF LibOK
<1>3. EntriesOK'
  BY DEF BootQuiet, NInv, EntriesOK
<1>4. Inside' = {}
  BY <1>1 DEF Inside
<1>5. MutexOK'
  <2>1. clib_mutex' # NULL => clib_mutex'.owner = {}
    <3>1. clib_mutex # NULL => clib_mutex.owner = {}
      BY BootFacts DEF NInv, MutexOK
    <3>2. osMutexNew.owner = {}
      BY DEF osMutexNew
    <3>. QED BY <3>1, <3>2
  <2>. HIDE DEF Inside
  <2>. QED
    BY <1>4, <2>1 DEF MutexOK
<1>7. PsOK'
  <2>1. RunningTasks' = RunningTasks
    BY DEF BootQuiet, RunningTasks
  <2>. QED
    BY <2>1, BootFacts DEF BootQuiet, PsOK
<1>. QED
  BY <1>2, <1>3, <1>5, <1>7

\* The bytes of what main's steps leave alone.
LEMMA BootBytes ==
    ASSUME NInv, boot # "running", BootQuiet, threads' = threads
    PROVE  /\ TaskBytes' = TaskBytes /\ SemBytes' = SemBytes /\ TestBytes' = TestBytes
           /\ MailboxThreadBytes' = MailboxThreadBytes
           /\ TaskBytes = 0 /\ SemBytes = 0
           /\ MailboxBlocks' = MailboxBlocks
           /\ kernel' = kernel => KernelBytes' = KernelBytes
           /\ clib_mutex' = clib_mutex => ClibBytes' = ClibBytes
           /\ boot # "halt" => heap = KernelBytes + ClibBytes + MailboxBytes + MailboxThreadBytes + TestBytes
<1>1. TaskThreads' = TaskThreads /\ TestThread' = TestThread /\ MailboxThreads' = MailboxThreads
  BY DEF TaskThreads, TestThread, MailboxThreads
<1>2. TaskBytes' = TaskBytes
  BY <1>1, Zenon DEF TaskBytes
<1>3. SemBytes' = SemBytes /\ TestBytes' = TestBytes /\ MailboxThreadBytes' = MailboxThreadBytes
  BY <1>1 DEF SemBytes, TestBytes, MailboxThreadBytes, BootQuiet
<1>4. TaskBytes = 0 /\ SemBytes = 0
  BY BootFacts
<1>5. MailboxBlocks' = MailboxBlocks
  BY DEF BootQuiet, MailboxBlocks
<1>6. boot # "halt" => heap = KernelBytes + ClibBytes + MailboxBytes + MailboxThreadBytes + TestBytes
  BY <1>4, ByteTypes DEF NInv, HeapOK
<1>7. /\ kernel' = kernel => KernelBytes' = KernelBytes
      /\ clib_mutex' = clib_mutex => ClibBytes' = ClibBytes
  BY DEF KernelBytes, ClibBytes
<1>. QED
  BY <1>2, <1>3, <1>4, <1>5, <1>6, <1>7

\* With the threads as they are, what remains is main's place and the heap.
PlaceMoved ==
    /\ kernel' \in {osKernelInactive, osKernelReady, osKernelRunning}
    /\ boot' \in BootLabel /\ failed' \in BOOLEAN
    /\ clib_mutex' = clib_mutex \/ clib_mutex' = osMutexNew
    /\ boot = "start" => boot' = "running"
    /\ boot = "test_thread" => boot' = "start"

HeapMoved ==
    /\ boot' # "halt" =>
          heap' = KernelBytes' + ClibBytes' + MailboxBytes' + MailboxThreadBytes + TestBytes
    /\ boot' = "halt" => heap' \in Int

\* A step of main that makes no thread: its place and its bytes are all
\* there is to show.
LEMMA BootMoved ==
    ASSUME NInv, boot # "running", lib[Main].pc = "out", BootQuiet, threads' = threads,
           PlaceMoved, HeapMoved, BootOK'
    PROVE  NInv'
<1>1. LibOK' /\ EntriesOK' /\ MutexOK' /\ PsOK'
  BY BootFrame DEF PlaceMoved
<1>2. ThreadsOK'
  BY DEF NInv, ThreadsOK, BootQuiet, PlaceMoved
<1>3. MailboxBytes' \in Nat /\ KernelBytes' \in Nat /\ ClibBytes' \in Nat
  <2>1. MailboxBlocks' \in Nat
    <3>1. MailboxBlocks' = MailboxBlocks
      BY BootBytes
    <3>2. MailboxBlocks \in Nat
      BY MailboxSize
    <3>. QED BY <3>1, <3>2
  <2>. QED
    BY <2>1 DEF MailboxBytes, KernelBytes, ClibBytes
<1>4. HeapOK' /\ heap' \in Int
  <2>1. /\ TaskBytes' = 0 /\ SemBytes' = 0 /\ TestBytes' = TestBytes
        /\ MailboxThreadBytes' = MailboxThreadBytes
    BY BootBytes
  <2>2. TestBytes \in Nat /\ MailboxThreadBytes \in Nat
    BY ByteTypes
  <2>3. heap' \in Int
    BY <1>3, <2>2 DEF HeapMoved
  <2>4. HeapOK'
    BY <1>3, <2>1, <2>2 DEF HeapOK, HeapMoved
  <2>. QED BY <2>3, <2>4
<1>6. clib_mutex' \in Mutex \cup {NULL}
  BY MutexKinds DEF osMutexNew, NInv, AppTypeOK, PlaceMoved
<1>7. AppTypeOK'
  BY <1>4, <1>6 DEF NInv, AppTypeOK, BootQuiet, PlaceMoved
<1>. QED
  BY <1>1, <1>2, <1>4, <1>7 DEF NInv

\* A step that changes nothing but main's place, before the mailbox's memory.
LEMMA PlaceStep ==
    ASSUME NInv, boot # "running", boot # "halt", lib[Main].pc = "out",
           UNCHANGED <<kernel, libVars, bootRest, heap>>,
           PlaceMoved, BootOK', MailboxBytes' = MailboxBytes
    PROVE  NInv'
<1>1. BootQuiet /\ threads' = threads /\ clib_mutex' = clib_mutex
  BY DEF BootQuiet, libVars, bootRest
<1>2. HeapMoved
  <2>1. /\ KernelBytes' = KernelBytes /\ ClibBytes' = ClibBytes
        /\ heap = KernelBytes + ClibBytes + MailboxBytes + MailboxThreadBytes + TestBytes
    BY <1>1, BootBytes
  <2>2. heap' = heap /\ heap \in Int
    BY ByteTypes
  <2>. QED
    BY <2>1, <2>2 DEF HeapMoved
<1>. QED
  BY <1>1, <1>2, BootMoved

\* The checks of platform, core and secure core, each of which may halt
\* main.
LEMMA CheckedStep ==
    ASSUME NInv, lib[Main].pc = "out",
           tfm_ns_platform_init \/ tfm_ns_cp_init \/ tfm_ns_wait_for_s_cpu_ready
    PROVE  NInv'
<1>1. /\ UNCHANGED <<kernel, libVars, bootRest, heap>>
      /\ failed' \in BOOLEAN
      /\ \/ boot = "platform" /\ boot' \in {"cp", "halt"}
         \/ boot = "cp" /\ boot' \in {"kernel", "halt"}
         \/ boot = "sync" /\ boot' \in {"mailbox", "halt"}
  <2>1. failed \in BOOLEAN
    BY DEF NInv, AppTypeOK
  <2>. QED
    BY <2>1 DEF tfm_ns_platform_init, tfm_ns_cp_init, tfm_ns_wait_for_s_cpu_ready, Checked, BootGoto
<1>2. MailboxBytes' = MailboxBytes
  BY <1>1 DEF MailboxBytes
<1>3. PlaceMoved
  BY <1>1 DEF PlaceMoved, BootLabel, libVars, NInv, AppTypeOK
<1>4. BootOK'
  BY <1>1 DEF BootOK, NInv, libVars, bootRest
<1>. QED
  BY <1>1, <1>2, <1>3, <1>4, PlaceStep

\* main sets up the interface of the TrustZone build.
LEMMA InterfaceStep ==
    ASSUME NInv, lib[Main].pc = "out", tfm_ns_interface_init
    PROVE  NInv'
<1>1. /\ UNCHANGED <<kernel, libVars, bootRest, heap, failed>>
      /\ boot = "interface" /\ boot' = "test_thread"
  BY DEF tfm_ns_interface_init, BootGoto
<1>2. build.interface = "trustzone" /\ build' = build
  BY <1>1 DEF NInv, BootOK, bootRest
<1>3. MailboxBytes' = MailboxBytes
  BY <1>1, <1>2 DEF MailboxBytes
<1>4. PlaceMoved
  BY <1>1 DEF PlaceMoved, BootLabel, libVars, NInv, AppTypeOK
<1>5. BootOK'
  BY <1>1, <1>2 DEF BootOK, NInv, libVars
<1>. QED
  BY <1>1, <1>3, <1>4, <1>5, PlaceStep

\* osKernelStart finds the kernel ready and its objects in place: main does not
\* come back from it.
LEMMA StartStep ==
    ASSUME NInv, lib[Main].pc = "out", osKernelStart
    PROVE  NInv'
<1>1. boot = "start" /\ kernel = osKernelReady /\ SystemObjectsFit
  <2>1. SystemObjectsFit
    BY Sizes
  <2>. QED
    BY <2>1 DEF osKernelStart, NInv, BootOK
<1>2. /\ kernel' = osKernelRunning /\ boot' = "running"
      /\ UNCHANGED <<libVars, bootRest, heap, failed>>
  BY <1>1 DEF osKernelStart, BootGoto
<1>3. BootQuiet /\ threads' = threads /\ clib_mutex' = clib_mutex
  BY <1>2 DEF BootQuiet, libVars, bootRest
<1>4. PlaceMoved
  BY <1>1, <1>2 DEF PlaceMoved, BootLabel, libVars, NInv, AppTypeOK
<1>5. HeapMoved
  <2>1. KernelBytes' = KernelBytes /\ MailboxBytes' = MailboxBytes
    <3>1. MailboxBlocks' = MailboxBlocks
      BY <1>1, <1>3, BootBytes
    <3>. QED
      BY <1>1, <1>2, <3>1 DEF KernelBytes, MailboxBytes, osKernelInactive, osKernelReady,
         osKernelRunning, bootRest
  <2>2. /\ ClibBytes' = ClibBytes
        /\ heap = KernelBytes + ClibBytes + MailboxBytes + MailboxThreadBytes + TestBytes
    BY <1>1, <1>3, BootBytes
  <2>. QED
    BY <1>2, <2>1, <2>2, ByteTypes DEF HeapMoved
<1>6. BootOK'
  BY <1>1, <1>2 DEF BootOK, NInv, libVars, bootRest, osKernelInactive, osKernelReady, osKernelRunning
<1>. QED
  BY <1>1, <1>3, <1>4, <1>5, <1>6, BootMoved

\* The kernel's initialisation, by the library's start-up or by main.
LEMMA KernelStep ==
    ASSUME NInv, lib[Main].pc = "out", init_hook \/ main_kernel_initialize
    PROVE  NInv'
<1>1. /\ boot \in {"reset", "kernel"} /\ boot' \in {"clib", "platform", "interface", "sync"}
      /\ boot = "reset" => boot' = IF build.compiler = "armclang" THEN "clib" ELSE "platform"
      /\ boot = "kernel" => boot' = IF build.interface = "trustzone" THEN "interface" ELSE "sync"
      /\ UNCHANGED <<libVars, bootRest, failed>>
  BY DEF init_hook, main_kernel_initialize, BootGoto
<1>2. /\ kernel' \in {osKernelInactive, osKernelReady}
      /\ boot = "kernel" \/ build.compiler \in {"armclang", "gcc"} => kernel' = osKernelReady
      /\ \/ UNCHANGED <<kernel, heap>>
         \/ kernel = osKernelInactive /\ kernel' = osKernelReady /\ heap' = 16
  <2>1. kernel \in {osKernelInactive, osKernelReady}
    BY <1>1, BootFacts
  <2>2. osKernelInitialize =>
           /\ kernel' = osKernelReady
           /\ \/ UNCHANGED <<kernel, heap>>
              \/ kernel = osKernelInactive /\ kernel' = osKernelReady /\ heap' = 16
    BY <2>1 DEF osKernelInitialize, MemHead
  <2>. QED
    BY <2>1, <2>2 DEF init_hook, main_kernel_initialize
<1>3. BootQuiet /\ threads' = threads /\ clib_mutex' = clib_mutex
  BY <1>1 DEF BootQuiet, libVars, bootRest
<1>4. PlaceMoved
  BY <1>1, <1>2 DEF PlaceMoved, BootLabel, libVars, NInv, AppTypeOK
<1>5. HeapMoved
  <2>1. MailboxBytes = 0 /\ MailboxBytes' = 0 /\ ClibBytes' = ClibBytes
    BY <1>1, <1>3 DEF MailboxBytes, ClibBytes
  <2>2. heap = KernelBytes + ClibBytes + MailboxBytes + MailboxThreadBytes + TestBytes
    BY <1>1, <1>3, BootBytes
  <2>3. CASE UNCHANGED <<kernel, heap>>
    <3>1. KernelBytes' = KernelBytes
      BY <2>3 DEF KernelBytes
    <3>. QED
      BY <1>1, <2>1, <2>2, <2>3, <3>1 DEF HeapMoved
  <2>4. CASE kernel = osKernelInactive /\ kernel' = osKernelReady /\ heap' = 16
    <3>1. KernelBytes = 0 /\ KernelBytes' = 16
      BY <2>4 DEF KernelBytes, osKernelInactive, osKernelReady
    <3>2. clib_mutex = NULL
      <4>1. CASE boot = "reset"
        BY <4>1 DEF NInv, BootOK
      <4>2. CASE boot = "kernel"
        BY <2>4, <4>2 DEF NInv, BootOK
      <4>. QED BY <1>1, <4>1, <4>2
    <3>3. ClibBytes = 0 /\ MailboxThreadBytes = 0 /\ TestBytes = 0
      BY <1>1, <3>2, BootFacts DEF ClibBytes
    <3>. QED
      BY <1>1, <2>1, <2>4, <3>1, <3>3 DEF HeapMoved
  <2>. QED BY <1>2, <2>3, <2>4
<1>6. BootOK'
  <2>1. /\ build' = build /\ os_kernel_active' = os_kernel_active /\ BootOK
        /\ osKernelInactive # osKernelReady /\ osKernelRunning \notin {osKernelInactive, osKernelReady}
    BY <1>1 DEF libVars, bootRest, NInv, osKernelInactive, osKernelReady, osKernelRunning
  <2>2. clib_mutex # NULL => kernel' # osKernelInactive
    BY <1>2, <2>1 DEF BootOK
  <2>3. CASE boot = "reset"
    BY <1>1, <1>2, <1>3, <2>1, <2>2, <2>3 DEF BootOK
  <2>4. CASE boot = "kernel"
    BY <1>1, <1>2, <1>3, <2>1, <2>2, <2>4 DEF BootOK
  <2>. QED BY <1>1, <2>3, <2>4
<1>. QED
  BY <1>1, <1>3, <1>4, <1>5, <1>6, BootMoved

\* The library's mutex is created: the kernel is ready and its memory empty.
LEMMA ClibStep ==
    ASSUME NInv, lib[Main].pc = "out", clib_init
    PROVE  NInv'
<1>1. /\ boot = "clib" /\ kernel = osKernelReady /\ kernel # osKernelInactive
      /\ build.compiler = "armclang" /\ clib_mutex = NULL
  BY DEF clib_init, NInv, BootOK, osKernelInactive, osKernelReady
<1>2. KernelBytes = 16 /\ ClibBytes = 0 /\ MailboxBytes = 0 /\ MailboxThreadBytes = 0 /\ TestBytes = 0
  BY <1>1, BootFacts DEF KernelBytes, ClibBytes, MailboxBytes
<1>3. heap = 16
  <2>1. TaskBytes = 0 /\ SemBytes = 0
    BY <1>1, BootFacts
  <2>. QED
    BY <1>1, <1>2, <2>1 DEF NInv, HeapOK
<1>4. Fits(40)
  BY <1>3, Sizes
<1>5. CbBlock(osRtxConfig.mpi.mutex, osRtxMutexCbSize) = 40
  BY Sizes
<1>6. /\ clib_mutex' = osMutexNew /\ heap' = 56 /\ boot' = "platform"
      /\ UNCHANGED <<kernel, bootRest, failed, os_kernel_active, os_libspace_id, lib, raced>>
  BY <1>1, <1>3, <1>4, <1>5 DEF clib_init, _mutex_initialize, BootGoto
<1>7. BootQuiet /\ threads' = threads
  BY <1>6 DEF BootQuiet, bootRest
<1>8. PlaceMoved
  BY <1>1, <1>6 DEF PlaceMoved, BootLabel, NInv, AppTypeOK
<1>9. clib_mutex' # NULL
  BY <1>6 DEF osMutexNew, NULL
<1>10. HeapMoved
  <2>1. KernelBytes' = 16 /\ ClibBytes' = 40 /\ MailboxBytes' = 0
    BY <1>1, <1>6, <1>9 DEF KernelBytes, ClibBytes, MailboxBytes
  <2>. QED
    BY <1>2, <1>6, <2>1 DEF HeapMoved
<1>11. BootOK'
  BY <1>1, <1>6, <1>9 DEF BootOK, NInv, bootRest
<1>. QED
  BY <1>1, <1>7, <1>8, <1>10, <1>11, BootMoved

\* main sets up the mailbox, with the objects of its RTOS layer.
LEMMA MailboxStep ==
    ASSUME NInv, lib[Main].pc = "out", tfm_ns_mailbox_init
    PROVE  NInv'
<1>1. /\ boot = "mailbox" /\ build.interface # "trustzone"
      /\ UNCHANGED <<kernel, libVars, bootRest>>
      /\ boot' \in {"mailbox_thread", "test_thread", "halt"}
      /\ boot' = "mailbox_thread" => build.interface = "mailbox_thread"
      /\ heap' = IF boot' = "halt" THEN heap ELSE heap + MailboxBlocks
  BY DEF tfm_ns_mailbox_init, NInv, BootOK, BootGoto
<1>2. BootQuiet /\ threads' = threads /\ clib_mutex' = clib_mutex
  BY <1>1 DEF BootQuiet, libVars, bootRest
<1>3. PlaceMoved
  <2>1. failed' \in BOOLEAN
    BY DEF tfm_ns_mailbox_init
  <2>. QED
    BY <1>1, <2>1 DEF PlaceMoved, BootLabel, libVars, NInv, AppTypeOK
<1>4. HeapMoved
  <2>1. /\ KernelBytes' = KernelBytes /\ ClibBytes' = ClibBytes /\ MailboxBlocks' = MailboxBlocks
        /\ heap = KernelBytes + ClibBytes + MailboxBytes + MailboxThreadBytes + TestBytes
    BY <1>1, <1>2, BootBytes
  <2>2. MailboxBytes = 0 /\ (boot' # "halt" => MailboxBytes' = MailboxBlocks)
    BY <1>1, <2>1 DEF MailboxBytes, bootRest
  <2>3. heap \in Int /\ MailboxBlocks \in Nat
    BY ByteTypes, MailboxSize
  <2>4. KernelBytes \in Nat /\ ClibBytes \in Nat /\ MailboxThreadBytes \in Nat /\ TestBytes \in Nat
    BY ByteTypes
  <2>5. boot' # "halt" => heap' = heap + MailboxBlocks
    BY <1>1
  <2>6. boot' = "halt" => heap' = heap
    BY <1>1
  <2>. QED
    BY <2>1, <2>2, <2>3, <2>4, <2>5, <2>6 DEF HeapMoved
<1>5. BootOK'
  BY <1>1 DEF BootOK, NInv, libVars, bootRest
<1>. QED
  BY <1>1, <1>2, <1>3, <1>4, <1>5, BootMoved

\* main's threads, made while there are no others but its own.
MadeBy(role, size, id) ==
    /\ id \in ThreadId /\ threads[id] = "none"
    /\ threads' = [threads EXCEPT ![id] = role]
    /\ heap' = heap + size

\* A thread for which there is memory gets a free address.
LEMMA ThreadMade ==
    ASSUME NInv, boot # "halt", TestThread # {} \/ TaskThreads = {},
           NEW role, NEW size \in Nat, size >= 856, Fits(size),
           threads' = [threads EXCEPT ![NextId] = role], heap' = heap + size
    PROVE  MadeBy(role, size, NextId)
<1>1. RoomForThread
  <2>1. heap + size <= 8192 /\ heap \in Int
    BY Sizes, ByteTypes
  <2>. QED BY <2>1 DEF RoomForThread
<1>2. NextId \in ThreadId /\ threads[NextId] = "none"
  BY <1>1, FreeAddress
<1>. QED
  BY <1>2 DEF MadeBy

MainThread(role, size) ==
    \/ role = "mailbox" /\ size = 1112 /\ boot = "mailbox_thread" /\ boot' = "test_thread"
    \/ role = "test" /\ size = 4184 /\ boot = "test_thread" /\ boot' = "start"

\* Making one of main's threads keeps the invariant.
LEMMA CreateStep ==
    ASSUME NInv, lib[Main].pc = "out",
           NEW role, NEW size, NEW id, MadeBy(role, size, id), MainThread(role, size),
           UNCHANGED <<kernel, libVars, build, failed, child, ps, test_semaphore, tasks, starved>>
    PROVE  NInv'
<1>1. BootQuiet /\ clib_mutex' = clib_mutex
  BY DEF BootQuiet, libVars
<1>2. boot # "running" /\ boot # "halt" /\ boot' \in BootLabel /\ boot' # "halt" /\ boot' # "running"
  BY DEF BootLabel, MainThread
<1>3. LibOK' /\ EntriesOK' /\ MutexOK' /\ PsOK'
  BY <1>1, <1>2, BootFrame
<1>4. BootOK'
  BY DEF BootOK, NInv, libVars, MainThread
<1>5. /\ threads' \in [ThreadId -> Roles] /\ threads'[id] = role
      /\ \A d \in ThreadId : d # id => threads'[d] = threads[d]
  BY DEF MadeBy, NInv, AppTypeOK, Roles, MainThread
<1>6. ThreadsOK'
  <2>1. \A d \in ThreadId :
          /\ threads[d] # "task" /\ threads[d] # "test"
          /\ boot = "mailbox_thread" => threads[d] # "mailbox"
          /\ child[d] = "none"
    BY <1>2 DEF NInv, ThreadsOK, MainThread
  <2>2. \A a, b \in ThreadId :
          threads'[a] = threads'[b] /\ threads'[a] \in {"test", "mailbox"} => a = b
    BY <1>5, <2>1 DEF NInv, ThreadsOK, MainThread
  <2>3. \A d \in ThreadId : threads'[d] # "task" /\ child'[d] = "none"
    BY <1>5, <2>1 DEF MainThread
  <2>4. \A d \in ThreadId :
          /\ threads'[d] = "test" => boot' \in {"start", "running"}
          /\ threads'[d] = "mailbox" => boot' \in {"test_thread", "start", "running"}
    BY <1>5, <2>1 DEF MainThread
  <2>. QED
    BY <2>2, <2>3, <2>4 DEF ThreadsOK
<1>7. HeapOK' /\ heap' \in Int
  <2>1. heap = KernelBytes + ClibBytes + MailboxBytes + MailboxThreadBytes + TestBytes + TaskBytes + SemBytes
    BY <1>2 DEF NInv, HeapOK
  <2>2. TaskThreads' = {} /\ TaskThreads = {} /\ TaskBytes = 0 /\ SemBytes = 0 /\ TestThread = {}
        /\ (boot = "mailbox_thread" => MailboxThreads = {})
    <3>1. TaskThreads = {} /\ TaskBytes = 0 /\ SemBytes = 0 /\ TestThread = {}
          /\ (boot = "mailbox_thread" => MailboxThreads = {})
      BY <1>2, BootFacts DEF MainThread
    <3>2. TaskThreads' = {}
      BY <1>5, <3>1 DEF TaskThreads, MainThread
    <3>. QED BY <3>1, <3>2
  <2>3. TaskBytes' = 0 /\ SemBytes' = 0
    <3>1. Cardinality(TaskThreads') = 0
      BY <2>2, FS_EmptySet, Zenon
    <3>2. ps' = "idle"
      BY <1>2, BootFacts DEF MainThread
    <3>. QED
      BY <3>1, <3>2 DEF TaskBytes, SemBytes
  <2>4. KernelBytes' = KernelBytes /\ ClibBytes' = ClibBytes /\ MailboxBytes' = MailboxBytes
    <3>1. MailboxBlocks' = MailboxBlocks
      BY DEF MailboxBlocks
    <3>. QED
      BY <1>1, <3>1 DEF KernelBytes, ClibBytes, MailboxBytes, MainThread
  <2>5. MailboxThreadBytes' + TestBytes' = MailboxThreadBytes + TestBytes + size
        /\ MailboxThreadBytes' \in Nat /\ TestBytes' \in Nat /\ size \in Nat
    <3>1. CASE role = "mailbox"
      <4>1. id \in MailboxThreads' /\ TestThread' = {}
        BY <1>5, <2>2, <3>1 DEF MailboxThreads, TestThread, MadeBy
      <4>. QED
        BY <2>2, <3>1, <4>1 DEF MailboxThreadBytes, TestBytes, MainThread
    <3>2. CASE role = "test"
      <4>1. id \in TestThread' /\ MailboxThreads' = MailboxThreads
        BY <1>5, <3>2 DEF MailboxThreads, TestThread, MadeBy
      <4>2. TestBytes' = 4184 /\ TestBytes = 0 /\ MailboxThreadBytes' = MailboxThreadBytes
        BY <2>2, <4>1 DEF MailboxThreadBytes, TestBytes
      <4>3. MailboxThreadBytes \in Nat
        BY ByteTypes
      <4>. QED
        BY <3>2, <4>2, <4>3 DEF MainThread
    <3>. QED BY <3>1, <3>2 DEF MainThread
  <2>6. KernelBytes \in Nat /\ ClibBytes \in Nat /\ MailboxBytes \in Nat
        /\ MailboxThreadBytes \in Nat /\ TestBytes \in Nat
    BY ByteTypes
  <2>7. heap' = KernelBytes' + ClibBytes' + MailboxBytes' + MailboxThreadBytes' + TestBytes'
                  + TaskBytes' + SemBytes'
    <3>1. heap' = heap + size /\ TaskBytes = 0 /\ SemBytes = 0
      BY <2>2 DEF MadeBy
    <3>. DEFINE base == KernelBytes + ClibBytes + MailboxBytes
                own == MailboxThreadBytes + TestBytes
    <3>2. base \in Nat /\ own \in Nat /\ heap = base + own
      BY <2>1, <2>6, <3>1
    <3>3. MailboxThreadBytes' + TestBytes' = own + size /\ size \in Nat
      BY <2>5
    <3>4. heap' = base + (MailboxThreadBytes' + TestBytes')
      <4>. HIDE DEF base, own
      <4>. QED BY <3>1, <3>2, <3>3
    <3>. QED
      BY <2>3, <2>4, <2>5, <2>6, <3>4
  <2>8. heap' \in Int
    BY <2>3, <2>4, <2>5, <2>6, <2>7
  <2>. QED BY <2>7, <2>8 DEF HeapOK
<1>8. AppTypeOK'
  BY <1>1, <1>2, <1>5, <1>7 DEF NInv, AppTypeOK, libVars
<1>. QED
  BY <1>3, <1>4, <1>6, <1>7, <1>8 DEF NInv

\* The two calls of main that make a thread, with and without memory for it.
LEMMA MainThreadStep ==
    ASSUME NInv, lib[Main].pc = "out", create_mailbox_thread \/ create_test_thread
    PROVE  NInv'
<1>. DEFINE role == IF boot = "mailbox_thread" THEN "mailbox" ELSE "test"
            size == IF boot = "mailbox_thread" THEN 1112 ELSE 4184
<1>1. /\ UNCHANGED <<kernel, libVars, build, failed, child, ps, test_semaphore, tasks, starved>>
      /\ \/ boot = "mailbox_thread" /\ boot' = "test_thread"
         \/ boot = "test_thread" /\ boot' = "start"
  BY DEF create_mailbox_thread, create_test_thread, BootGoto
<1>2. IF Fits(size)
      THEN threads' = [threads EXCEPT ![NextId] = role] /\ heap' = heap + size
      ELSE UNCHANGED <<threads, heap>>
  <2>1. ThreadBlocks(1024) = 1112 /\ ThreadBlocks(4096) = 4184
    BY Sizes
  <2>2. mailbox_thread_attr.stack_size = 1024 /\ thread_attr.stack_size = 4096
    BY DEF mailbox_thread_attr, thread_attr
  <2>3. CASE create_mailbox_thread
    BY <2>1, <2>2, <2>3 DEF create_mailbox_thread, osThreadNew
  <2>4. CASE create_test_thread
    BY <2>1, <2>2, <2>4 DEF create_test_thread, osThreadNew
  <2>. QED BY <2>3, <2>4
<1>3. size \in Nat /\ size >= 856 /\ MainThread(role, size)
  BY <1>1 DEF MainThread
<1>. HIDE DEF role, size
<1>4. CASE Fits(size)
  <2>1. boot # "halt" /\ TaskThreads = {}
    BY <1>1, BootFacts
  <2>2. MadeBy(role, size, NextId)
    BY <1>2, <1>3, <1>4, <2>1, ThreadMade
  <2>3. PICK r, n, id : MadeBy(r, n, id) /\ MainThread(r, n)
    BY <1>3, <2>2
  <2>. QED
    BY <1>1, <2>3, CreateStep
<1>5. CASE ~Fits(size)
  <2>1. UNCHANGED <<kernel, libVars, bootRest, heap>>
    BY <1>1, <1>2, <1>5 DEF bootRest
  <2>2. PlaceMoved
    BY <1>1 DEF PlaceMoved, BootLabel, libVars, NInv, AppTypeOK
  <2>3. BootOK'
    BY <1>1 DEF BootOK, NInv, libVars
  <2>4. MailboxBytes' = MailboxBytes
    <3>1. MailboxBlocks' = MailboxBlocks
      BY <1>1 DEF MailboxBlocks
    <3>. QED
      BY <1>1, <3>1 DEF MailboxBytes
  <2>5. boot # "running" /\ boot # "halt"
    BY <1>1
  <2>. QED
    BY <2>1, <2>2, <2>3, <2>4, <2>5, PlaceStep
<1>. QED BY <1>4, <1>5

\* Every step of main, from the start-up hooks to osKernelStart.
LEMMA MainStep ==
    ASSUME NInv, lib[Main].pc = "out", BootStep
    PROVE  NInv'
BY KernelStep, ClibStep, CheckedStep, InterfaceStep, MailboxStep, MainThreadStep, StartStep DEF BootStep

-----------------------------------------------------------------------------
(* The storage test's helper, its task and their semaphore. *)

\* What a semaphore is, and that no semaphore is NULL.
LEMMA SemaphoreKinds ==
    /\ NULL \notin Semaphore
    /\ \A n \in 0 .. 1 : \A w \in Seq(ThreadId) :
          LET s == [count |-> n, max |-> 1, waiters |-> w]
          IN  s \in Semaphore /\ s.count = n /\ s.max = 1 /\ s.waiters = w
    /\ \A s \in Semaphore : s = [count |-> s.count, max |-> 1, waiters |-> s.waiters] /\ s # NULL
BY DEF Semaphore, NULL

\* A new semaphore has no token, and nobody waits for one.
LEMMA SemaphoreNew ==
    os_wrapper_semaphore_create(1, InitialCount) = [count |-> 0, max |-> 1, waiters |-> <<>>]
BY DEF os_wrapper_semaphore_create, osSemaphoreNew, InitialCount

\* The helper's semaphore when nobody waits for it.
LEMMA EmptySemaphores ==
    ASSUME NEW n \in 0 .. 1, NEW s, s = [count |-> n, max |-> 1, waiters |-> <<>>]
    PROVE  s \in Semaphore /\ s # NULL /\ s.count = n /\ s.waiters = <<>>
<1>1. <<>> \in Seq(ThreadId)
  OBVIOUS
<1>. QED
  BY <1>1, SemaphoreKinds

\* A deleted semaphore is NULL.
LEMMA SemaphoreDelete ==
    ASSUME NEW s
    PROVE  os_wrapper_semaphore_delete(s).obj = NULL
BY DEF os_wrapper_semaphore_delete, Report, osSemaphoreDelete

\* Without a waiter the first release leaves a token, and the acquisition of a
\* token takes it; a thread that finds none waits for the release.
LEMMA SemaphoreAcquire ==
    ASSUME NEW t \in ThreadId, NEW n \in 0 .. 1
    PROVE  LET r == os_wrapper_semaphore_acquire([count |-> n, max |-> 1, waiters |-> <<>>], t,
                                                 OS_WRAPPER_WAIT_FOREVER)
           IN  /\ n = 1 => r.ret # Blocked /\ r.obj = [count |-> 0, max |-> 1, waiters |-> <<>>]
               /\ n = 0 => r.ret = Blocked /\ r.obj = [count |-> 0, max |-> 1, waiters |-> <<t>>]
<1>. DEFINE s == [count |-> n, max |-> 1, waiters |-> <<>>]
<1>1. s # NULL /\ s.count = n /\ s.waiters = <<>>
  BY DEF NULL
<1>2. [s EXCEPT !.waiters = Append(s.waiters, t)] = [count |-> n, max |-> 1, waiters |-> <<t>>]
  BY <1>1
<1>3. n = 1 => [s EXCEPT !.count = s.count - 1] = [count |-> 0, max |-> 1, waiters |-> <<>>]
  BY <1>1
<1>. HIDE DEF s
<1>4. n = 1 => osSemaphoreAcquire(s, t, osWaitForever)
                 = [status |-> osOK, obj |-> [count |-> 0, max |-> 1, waiters |-> <<>>]]
  BY <1>1, <1>3 DEF osSemaphoreAcquire
<1>5. n = 0 => osSemaphoreAcquire(s, t, osWaitForever)
                 = [status |-> Blocked, obj |-> [count |-> 0, max |-> 1, waiters |-> <<t>>]]
  BY <1>1, <1>2 DEF osSemaphoreAcquire
<1>6. os_wrapper_semaphore_acquire(s, t, OS_WRAPPER_WAIT_FOREVER)
        = Report(osSemaphoreAcquire(s, t, osWaitForever))
  BY DEF os_wrapper_semaphore_acquire, Timeout
<1>. QED
  BY <1>4, <1>5, <1>6 DEF Report, osOK, Blocked, OS_WRAPPER_SUCCESS, s

\* A release goes to the waiter if there is one, and to the count otherwise.
LEMMA SemaphoreRelease ==
    /\ os_wrapper_semaphore_release([count |-> 0, max |-> 1, waiters |-> <<>>]).obj
         = [count |-> 1, max |-> 1, waiters |-> <<>>]
    /\ \A t \in ThreadId :
          os_wrapper_semaphore_release([count |-> 0, max |-> 1, waiters |-> <<t>>]).obj
            = [count |-> 0, max |-> 1, waiters |-> <<>>]
<1>1. os_wrapper_semaphore_release([count |-> 0, max |-> 1, waiters |-> <<>>]).obj
         = [count |-> 1, max |-> 1, waiters |-> <<>>]
  <2>. DEFINE s == [count |-> 0, max |-> 1, waiters |-> <<>>]
  <2>1. s # NULL /\ s.waiters = <<>> /\ s.count = 0 /\ s.max = 1
    BY DEF NULL
  <2>2. [s EXCEPT !.count = s.count + 1] = [count |-> 1, max |-> 1, waiters |-> <<>>]
    OBVIOUS
  <2>. HIDE DEF s
  <2>3. osSemaphoreRelease(s).obj = [count |-> 1, max |-> 1, waiters |-> <<>>]
    BY <2>1, <2>2 DEF osSemaphoreRelease
  <2>. QED
    BY <2>3 DEF os_wrapper_semaphore_release, Report, s
<1>2. ASSUME NEW t \in ThreadId
      PROVE  os_wrapper_semaphore_release([count |-> 0, max |-> 1, waiters |-> <<t>>]).obj
               = [count |-> 0, max |-> 1, waiters |-> <<>>]
  <2>. DEFINE s == [count |-> 0, max |-> 1, waiters |-> <<t>>]
  <2>1. s # NULL /\ s.waiters = <<t>> /\ <<t>> # <<>>
    BY DEF NULL
  <2>2. [s EXCEPT !.waiters = Tail(s.waiters)] = [count |-> 0, max |-> 1, waiters |-> <<>>]
    OBVIOUS
  <2>. HIDE DEF s
  <2>3. osSemaphoreRelease(s).obj = [count |-> 0, max |-> 1, waiters |-> <<>>]
    BY <2>1, <2>2 DEF osSemaphoreRelease
  <2>. QED
    BY <2>3 DEF os_wrapper_semaphore_release, Report, s
<1>. QED BY <1>1, <1>2

\* What the helper and its tasks leave alone.
LEMMA PsFrame ==
    ASSUME NInv, UNCHANGED psRest
    PROVE  /\ BootOK' /\ LibOK' /\ EntriesOK' /\ MutexOK'
           /\ KernelBytes' = KernelBytes /\ ClibBytes' = ClibBytes /\ MailboxBytes' = MailboxBytes
<1>. USE DEF psRest, libVars
<1>1. BootOK'
  BY DEF NInv, BootOK
<1>2. LibOK'
  <2>1. \A c \in ThreadId : SearchOK(c) => SearchOK(c)'
    BY DEF SearchOK
  <2>. QED
    BY <2>1 DEF NInv, LibOK
<1>3. EntriesOK'
  BY DEF NInv, EntriesOK
<1>4. MutexOK'
  <2>1. Inside' = Inside
    BY DEF Inside
  <2>. HIDE DEF Inside
  <2>. QED
    BY <2>1 DEF NInv, MutexOK
<1>5. KernelBytes' = KernelBytes /\ ClibBytes' = ClibBytes /\ MailboxBytes' = MailboxBytes
  <2>1. MailboxBlocks' = MailboxBlocks
    BY DEF MailboxBlocks
  <2>. QED
    BY <2>1 DEF KernelBytes, ClibBytes, MailboxBytes
<1>. QED
  BY <1>1, <1>2, <1>3, <1>4, <1>5

\* The heap moves with the tasks and the semaphore.
LEMMA PsHeap ==
    ASSUME NInv, UNCHANGED psRest, boot = "running",
           TestThread' = TestThread, MailboxThreads' = MailboxThreads,
           NEW d \in Int, heap' = heap + d,
           TaskBytes' \in Nat, SemBytes' \in Nat, TaskBytes' + SemBytes' = TaskBytes + SemBytes + d
    PROVE  HeapOK' /\ heap' \in Int
<1>1. KernelBytes' = KernelBytes /\ ClibBytes' = ClibBytes /\ MailboxBytes' = MailboxBytes
  BY PsFrame
<1>2. TestBytes' = TestBytes /\ MailboxThreadBytes' = MailboxThreadBytes
  BY DEF TestBytes, MailboxThreadBytes
<1>. DEFINE rest == KernelBytes + ClibBytes + MailboxBytes + MailboxThreadBytes + TestBytes
<1>3. rest \in Nat /\ heap = rest + TaskBytes + SemBytes /\ TaskBytes \in Nat /\ SemBytes \in Nat
  BY ByteTypes DEF NInv, HeapOK
<1>4. heap' = rest + TaskBytes' + SemBytes'
  <2>1. PICK r \in Nat, t \in Nat, n \in Nat : r = rest /\ t = TaskBytes' /\ n = SemBytes'
    BY <1>3
  <2>2. heap' = (rest + TaskBytes + SemBytes) + d
    BY <1>3
  <2>3. heap' = rest + (TaskBytes + SemBytes + d)
    <3>. HIDE DEF rest
    <3>. QED BY <1>3, <2>2
  <2>4. heap' = r + (t + n)
    BY <2>1, <2>3
  <2>. QED BY <2>1, <2>4
<1>5. heap' = KernelBytes' + ClibBytes' + MailboxBytes' + MailboxThreadBytes' + TestBytes'
                + TaskBytes' + SemBytes'
  BY <1>1, <1>2, <1>4
<1>6. heap' \in Int
  <2>. HIDE DEF rest
  <2>. QED
    BY <1>3
<1>. QED
  BY <1>5, <1>6 DEF HeapOK

\* The same threads make the same account.
LEMMA ThreadsKept ==
    ASSUME NInv, UNCHANGED <<threads>>
    PROVE  /\ TestThread' = TestThread /\ MailboxThreads' = MailboxThreads
           /\ TaskThreads' = TaskThreads /\ TaskBytes' = TaskBytes
           /\ TaskBytes \in Nat /\ Cardinality(Lingering) \in Int
<1>1. TestThread' = TestThread /\ MailboxThreads' = MailboxThreads /\ TaskThreads' = TaskThreads
  BY DEF TestThread, MailboxThreads, TaskThreads
<1>2. TaskBytes' = TaskBytes
  BY <1>1, Zenon DEF TaskBytes
<1>3. TaskBytes \in Nat
  BY ByteTypes
<1>4. Cardinality(Lingering) \in Int
  <2>1. Lingering \subseteq ThreadId
    BY DEF Lingering
  <2>2. Cardinality(Lingering) \in Nat
    BY <2>1, ThreadIdAssumption, FS_Subset, FS_CardinalityType
  <2>. QED BY <2>2
<1>. QED
  BY <1>1, <1>2, <1>3, <1>4

\* The semaphore is made: the helper's call begins.
LEMMA PsSemaphoreStep ==
    ASSUME NInv, boot = "running", ps_semaphore
    PROVE  NInv'
<1>1. /\ ps = "idle" /\ tasks' = tasks + 1 /\ UNCHANGED <<psRest, threads, child>>
      /\ \/ /\ test_semaphore' = [count |-> 0, max |-> 1, waiters |-> <<>>]
            /\ heap' = heap + 24 /\ ps' = "thread" /\ UNCHANGED starved
         \/ starved' = Cardinality(Lingering) /\ UNCHANGED <<test_semaphore, heap, ps>>
  <2>1. SemBlock = 24
    BY Sizes
  <2>. QED
    BY <2>1, SemaphoreNew DEF ps_semaphore, InTestThread
<1>2. /\ TestThread' = TestThread /\ MailboxThreads' = MailboxThreads /\ TaskBytes' = TaskBytes
      /\ TaskBytes \in Nat /\ Cardinality(Lingering) \in Int
  BY <1>1, ThreadsKept
<1>3. RunningTasks' = {} /\ test_semaphore = NULL
  BY <1>1 DEF NInv, PsOK, RunningTasks
<1>4. ThreadsOK'
  BY <1>1 DEF NInv, ThreadsOK, psRest
<1>5. CASE ps' = "thread"
  <2>1. /\ test_semaphore' = [count |-> 0, max |-> 1, waiters |-> <<>>] /\ heap' = heap + 24
        /\ UNCHANGED starved
    BY <1>1, <1>5
  <2>2. test_semaphore' \in Semaphore /\ test_semaphore' # NULL /\ test_semaphore'.count = 0
        /\ test_semaphore'.waiters = <<>>
    BY <2>1, EmptySemaphores
  <2>3. SemBytes = 0 /\ SemBytes' = 24
    BY <1>1, <1>5 DEF SemBytes
  <2>4. HeapOK' /\ heap' \in Int
    BY <1>1, <1>2, <2>1, <2>3, PsHeap
  <2>5. PsOK'
    <3>. HIDE DEF RunningTasks
    <3>. QED
      BY <1>1, <1>3, <1>5, <2>2 DEF PsOK, psRest
  <2>6. AppTypeOK'
    BY <1>1, <1>5, <2>1, <2>2, <2>4 DEF NInv, AppTypeOK, psRest, libVars
  <2>. QED
    BY <1>1, <1>4, <2>4, <2>5, <2>6, PsFrame DEF NInv
<1>6. CASE ps' # "thread"
  <2>1. UNCHANGED <<test_semaphore, heap, ps>> /\ starved' \in Int
    BY <1>1, <1>2, <1>6
  <2>2. SemBytes = 0 /\ SemBytes' = 0
    BY <1>1, <2>1 DEF SemBytes
  <2>3. HeapOK' /\ heap' \in Int
    <3>1. heap' = heap + 0
      BY <2>1, ByteTypes
    <3>. QED
      BY <1>1, <1>2, <2>2, <3>1, PsHeap
  <2>4. PsOK'
    <3>. HIDE DEF RunningTasks
    <3>. QED
      BY <1>1, <1>3, <2>1 DEF PsOK, psRest
  <2>5. AppTypeOK'
    BY <1>1, <2>1, <2>3 DEF NInv, AppTypeOK, psRest, libVars
  <2>. QED
    BY <1>1, <1>4, <2>3, <2>4, <2>5, PsFrame DEF NInv
<1>. QED BY <1>5, <1>6

\* What the test thread finds in the semaphore.
LEMMA SemaphoreFacts ==
    ASSUME NInv
    PROVE  /\ ps \in {"thread", "release"} =>
                 test_semaphore = [count |-> 0, max |-> 1, waiters |-> <<>>]
           /\ ps = "acquire" =>
                 test_semaphore = [count |-> IF RunningTasks = {} THEN 1 ELSE 0, max |-> 1, waiters |-> <<>>]
           /\ ps = "wait" =>
                 \E id \in TestThread : test_semaphore = [count |-> 0, max |-> 1, waiters |-> <<id>>]
<1>1. ps # "idle" => test_semaphore \in Semaphore
  BY DEF NInv, PsOK, AppTypeOK
<1>2. ps # "idle" =>
        test_semaphore = [count |-> test_semaphore.count, max |-> 1, waiters |-> test_semaphore.waiters]
  BY <1>1, SemaphoreKinds
<1>. HIDE DEF RunningTasks, TestThread
<1>3. /\ ps \in {"thread", "release"} => test_semaphore.count = 0 /\ test_semaphore.waiters = <<>>
      /\ ps = "acquire" =>
           /\ test_semaphore.waiters = <<>>
           /\ test_semaphore.count = IF RunningTasks = {} THEN 1 ELSE 0
      /\ ps = "wait" => test_semaphore.count = 0 /\ \E id \in TestThread : test_semaphore.waiters = <<id>>
  BY DEF NInv, PsOK
<1>. QED
  BY <1>2, <1>3

\* The semaphore is deleted: the helper's call ends, whether its task ran or not.
LEMMA PsEndStep ==
    ASSUME NInv, boot = "running", ps \in {"thread", "release"},
           test_semaphore' = NULL, heap' = heap - 24, ps' = "idle",
           UNCHANGED <<psRest, threads, child, tasks>>, starved' \in Int
    PROVE  NInv'
<1>1. /\ TestThread' = TestThread /\ MailboxThreads' = MailboxThreads /\ TaskBytes' = TaskBytes
      /\ TaskBytes \in Nat
  BY ThreadsKept
<1>2. RunningTasks' = {}
  BY DEF NInv, PsOK, RunningTasks
<1>3. ThreadsOK'
  BY DEF NInv, ThreadsOK, psRest
<1>4. HeapOK' /\ heap' \in Int
  <2>1. SemBytes = 24 /\ SemBytes' = 0
    BY DEF SemBytes
  <2>2. heap' = heap + (-24)
    BY ByteTypes
  <2>. QED
    BY <1>1, <2>1, <2>2, PsHeap
<1>5. PsOK'
  <2>. HIDE DEF RunningTasks
  <2>. QED
    BY <1>2 DEF PsOK, psRest
<1>6. AppTypeOK'
  BY <1>4 DEF NInv, AppTypeOK, psRest, libVars
<1>. QED
  BY <1>3, <1>4, <1>5, <1>6, PsFrame DEF NInv

\* A task's thread is made.
LEMMA PsTaskStep ==
    ASSUME NInv, boot = "running", ps = "thread", TestThread # {}, NEW id,
           MadeBy("task", 856, id), child' = [child EXCEPT ![id] = "run"], ps' = "acquire",
           UNCHANGED <<psRest, test_semaphore, starved, tasks>>
    PROVE  NInv'
<1>1. /\ id \in ThreadId /\ threads[id] = "none" /\ child[id] = "none"
      /\ threads' \in [ThreadId -> Roles] /\ threads'[id] = "task"
      /\ \A d \in ThreadId : d # id => threads'[d] = threads[d]
      /\ child' \in [ThreadId -> {"none", "run", "exit"}] /\ child'[id] = "run"
      /\ \A d \in ThreadId : d # id => child'[d] = child[d]
      /\ heap' = heap + 856
  BY DEF MadeBy, NInv, AppTypeOK, Roles, ThreadsOK
<1>2. TestThread' = TestThread /\ MailboxThreads' = MailboxThreads
  BY <1>1 DEF TestThread, MailboxThreads
<1>3. TaskThreads' = TaskThreads \cup {id} /\ id \notin TaskThreads
  BY <1>1 DEF TaskThreads
<1>4. TaskBytes' = TaskBytes + 856 /\ TaskBytes \in Nat
  <2>1. Cardinality(TaskThreads \cup {id}) = Cardinality(TaskThreads) + 1
    BY <1>3, FiniteThreads, FS_AddElement
  <2>2. Cardinality(TaskThreads') = Cardinality(TaskThreads \cup {id})
    BY <1>3, Zenon
  <2>3. TaskBytes' = 856 * Cardinality(TaskThreads')
    BY DEF TaskBytes
  <2>4. Cardinality(TaskThreads) \in Nat /\ TaskBytes = 856 * Cardinality(TaskThreads) /\ TaskBytes \in Nat
    BY FiniteThreads, ByteTypes
  <2>5. \A n \in Nat : 856 * (n + 1) = 856 * n + 856
    OBVIOUS
  <2>. QED
    BY <2>1, <2>2, <2>3, <2>4, <2>5
<1>5. HeapOK' /\ heap' \in Int
  <2>1. SemBytes = 24 /\ SemBytes' = 24
    BY DEF SemBytes
  <2>. QED
    BY <1>1, <1>2, <1>4, <2>1, PsHeap
<1>6. ThreadsOK'
  <2>1. \A d \in ThreadId :
          /\ child'[d] # "none" <=> threads'[d] = "task"
          /\ threads'[d] = "task" => boot' = "running"
          /\ threads'[d] = "test" => boot' \in {"start", "running"}
          /\ threads'[d] = "mailbox" => boot' \in {"test_thread", "start", "running"}
    BY <1>1 DEF NInv, ThreadsOK, psRest
  <2>2. \A a, b \in ThreadId :
          threads'[a] = threads'[b] /\ threads'[a] \in {"test", "mailbox"} => a = b
    BY <1>1 DEF NInv, ThreadsOK
  <2>. QED
    BY <2>1, <2>2 DEF ThreadsOK
<1>7. RunningTasks' = {id}
  <2>1. RunningTasks = {}
    BY DEF NInv, PsOK
  <2>. QED
    BY <1>1, <2>1 DEF RunningTasks
<1>8. PsOK'
  <2>1. /\ test_semaphore' # NULL /\ test_semaphore'.count = 0 /\ test_semaphore'.waiters = <<>>
        /\ boot' = "running"
    BY DEF NInv, PsOK, psRest
  <2>. HIDE DEF RunningTasks
  <2>. QED
    BY <1>7, <2>1 DEF PsOK
<1>9. AppTypeOK'
  BY <1>1, <1>5 DEF NInv, AppTypeOK, psRest, libVars
<1>. QED
  BY <1>5, <1>6, <1>8, <1>9, PsFrame DEF NInv

\* The helper makes a task's thread, or fails to and deletes its semaphore.
LEMMA PsThreadStep ==
    ASSUME NInv, boot = "running", ps_thread
    PROVE  NInv'
<1>1. /\ ps = "thread" /\ TestThread # {} /\ UNCHANGED <<psRest, tasks>>
      /\ \/ /\ Fits(856) /\ threads' = [threads EXCEPT ![NextId] = "task"]
            /\ child' = [child EXCEPT ![NextId] = "run"]
            /\ heap' = heap + 856 /\ ps' = "acquire" /\ UNCHANGED <<test_semaphore, starved>>
         \/ /\ test_semaphore' = NULL /\ heap' = heap - 24 /\ ps' = "idle"
            /\ starved' = Cardinality(Lingering) /\ UNCHANGED <<threads, child>>
  <2>1. ThreadBlocks(PsAttr.stack_size) = 856 /\ SemBlock = 24 /\ OwnPriority.ret # OS_WRAPPER_ERROR
    BY Sizes
  <2>. QED
    BY <2>1, SemaphoreDelete DEF ps_thread, InTestThread
<1>2. CASE ps' = "acquire"
  <2>1. /\ Fits(856) /\ threads' = [threads EXCEPT ![NextId] = "task"]
        /\ child' = [child EXCEPT ![NextId] = "run"]
        /\ heap' = heap + 856 /\ UNCHANGED <<test_semaphore, starved>>
    BY <1>1, <1>2
  <2>2. MadeBy("task", 856, NextId)
    <3>1. boot # "halt" /\ TestThread # {}
      BY <1>1
    <3>2. PICK size \in Nat : size = 856
      OBVIOUS
    <3>3. MadeBy("task", size, NextId)
      <4>1. size >= 856
        BY <3>2
      <4>2. Fits(size) /\ heap' = heap + size
        BY <2>1, <3>2
      <4>3. threads' = [threads EXCEPT ![NextId] = "task"]
        BY <2>1
      <4>. QED
        BY <3>1, <4>1, <4>2, <4>3, ThreadMade
    <3>. QED BY <3>2, <3>3
  <2>3. PICK id : MadeBy("task", 856, id) /\ child' = [child EXCEPT ![id] = "run"]
    BY <2>1, <2>2
  <2>. QED
    BY <1>1, <1>2, <2>1, <2>3, PsTaskStep
<1>3. CASE ps' # "acquire"
  <2>1. /\ test_semaphore' = NULL /\ heap' = heap - 24 /\ ps' = "idle"
        /\ starved' = Cardinality(Lingering) /\ UNCHANGED <<threads, child>>
    BY <1>1, <1>3
  <2>2. starved' \in Int
    BY <2>1, ThreadsKept
  <2>. QED
    BY <1>1, <2>1, <2>2, PsEndStep
<1>. QED BY <1>2, <1>3

\* The helper has its answer and deletes its semaphore.
LEMMA PsFinishStep ==
    ASSUME NInv, boot = "running", ps_finish
    PROVE  NInv'
<1>1. /\ ps = "release" /\ test_semaphore' = NULL /\ heap' = heap - 24 /\ ps' = "idle"
      /\ UNCHANGED <<psRest, threads, child, tasks, starved>>
  <2>1. SemBlock = 24
    BY Sizes
  <2>. QED
    BY <2>1, SemaphoreDelete DEF ps_finish, InTestThread
<1>2. starved' \in Int
  BY <1>1 DEF NInv, AppTypeOK
<1>. QED
  BY <1>1, <1>2, PsEndStep

\* The test thread takes the task's token, or waits for it.
LEMMA PsAcquireStep ==
    ASSUME NInv, boot = "running", ps_acquire
    PROVE  NInv'
<1>. DEFINE n == IF RunningTasks = {} THEN 1 ELSE 0
<1>1. PICK id \in TestThread :
        LET r == os_wrapper_semaphore_acquire(test_semaphore, id, OS_WRAPPER_WAIT_FOREVER)
        IN  /\ test_semaphore' = r.obj
            /\ ps' = IF r.ret = Blocked THEN "wait" ELSE "release"
  BY DEF ps_acquire
<1>2. ps = "acquire" /\ UNCHANGED <<psRest, heap, threads, child, tasks, starved>> /\ id \in ThreadId
  BY DEF ps_acquire, InTestThread, TestThread
<1>3. test_semaphore = [count |-> n, max |-> 1, waiters |-> <<>>] /\ n \in 0 .. 1
  BY <1>2, SemaphoreFacts
<1>4. /\ n = 1 => ps' = "release" /\ test_semaphore' = [count |-> 0, max |-> 1, waiters |-> <<>>]
      /\ n = 0 => ps' = "wait" /\ test_semaphore' = [count |-> 0, max |-> 1, waiters |-> <<id>>]
  <2>. HIDE DEF n
  <2>. QED
    BY <1>1, <1>2, <1>3, SemaphoreAcquire
<1>5. /\ TestThread' = TestThread /\ MailboxThreads' = MailboxThreads /\ TaskBytes' = TaskBytes
      /\ TaskBytes \in Nat
  BY <1>2, ThreadsKept
<1>6. RunningTasks' = RunningTasks
  BY <1>2 DEF RunningTasks
<1>7. ThreadsOK'
  BY <1>2 DEF NInv, ThreadsOK, psRest
<1>8. ps' \in {"wait", "release"}
  BY <1>4
<1>9. HeapOK' /\ heap' \in Int
  <2>1. SemBytes = 24 /\ SemBytes' = 24
    BY <1>2, <1>8 DEF SemBytes
  <2>2. heap' = heap + 0
    BY <1>2, ByteTypes
  <2>. QED
    BY <1>2, <1>5, <2>1, <2>2, PsHeap
<1>10. /\ test_semaphore' \in Semaphore /\ test_semaphore' # NULL /\ test_semaphore'.count = 0
       /\ n = 1 => test_semaphore'.waiters = <<>>
       /\ n = 0 => test_semaphore'.waiters = <<id>>
  <2>1. <<id>> \in Seq(ThreadId) /\ <<>> \in Seq(ThreadId)
    BY <1>2
  <2>2. CASE n = 1
    BY <1>4, <2>2, EmptySemaphores
  <2>3. CASE n = 0
    <3>1. PICK w \in Seq(ThreadId) : w = <<id>>
      BY <2>1
    <3>2. test_semaphore' = [count |-> 0, max |-> 1, waiters |-> w]
      BY <1>4, <2>3, <3>1
    <3>3. 0 \in 0 .. 1
      OBVIOUS
    <3>4. test_semaphore' \in Semaphore /\ test_semaphore'.count = 0 /\ test_semaphore'.waiters = w
      BY <3>2, <3>3, SemaphoreKinds
    <3>. QED
      BY <2>3, <3>1, <3>4, SemaphoreKinds
  <2>. QED BY <2>2, <2>3
<1>11. PsOK'
  <2>1. CASE RunningTasks = {}
    <3>1. /\ ps' = "release" /\ test_semaphore'.waiters = <<>> /\ RunningTasks' = {}
          /\ test_semaphore' # NULL /\ test_semaphore'.count = 0 /\ boot' = "running"
      BY <1>2, <1>4, <1>6, <1>10, <2>1 DEF psRest
    <3>. HIDE DEF RunningTasks
    <3>. QED
      BY <3>1 DEF PsOK
  <2>2. CASE RunningTasks # {}
    <3>1. /\ ps' = "wait" /\ test_semaphore'.waiters = <<id>> /\ RunningTasks' = RunningTasks
          /\ test_semaphore' # NULL /\ test_semaphore'.count = 0 /\ boot' = "running"
          /\ id \in TestThread' /\ \A a, b \in RunningTasks : a = b
      BY <1>2, <1>4, <1>5, <1>6, <1>10, <2>2 DEF psRest, NInv, PsOK
    <3>. HIDE DEF RunningTasks, TestThread
    <3>. QED
      BY <2>2, <3>1 DEF PsOK
  <2>. QED BY <2>1, <2>2
<1>12. AppTypeOK'
  BY <1>2, <1>8, <1>9, <1>10 DEF NInv, AppTypeOK, psRest, libVars
<1>. QED
  BY <1>2, <1>7, <1>9, <1>11, <1>12, PsFrame DEF NInv

\* The task releases the semaphore: to the test thread if it waits.
LEMMA TaskReleaseStep ==
    ASSUME NInv, boot = "running", NEW id \in ThreadId, task_release(id)
    PROVE  NInv'
<1>1. /\ threads[id] = "task" /\ child[id] = "run"
      /\ test_semaphore' = os_wrapper_semaphore_release(test_semaphore).obj
      /\ ps' = IF ps = "wait" /\ test_semaphore.waiters # <<>> THEN "release" ELSE ps
      /\ child' = [child EXCEPT ![id] = "exit"]
      /\ UNCHANGED <<psRest, heap, threads, tasks, starved>>
  BY DEF task_release, InTask
<1>2. RunningTasks = {id} /\ ps \in {"acquire", "wait"}
  BY <1>1 DEF NInv, PsOK, RunningTasks, AppTypeOK
<1>3. /\ child' \in [ThreadId -> {"none", "run", "exit"}] /\ child'[id] = "exit"
      /\ \A d \in ThreadId : d # id => child'[d] = child[d]
  BY <1>1 DEF NInv, AppTypeOK
<1>4. RunningTasks' = {}
  BY <1>2, <1>3 DEF RunningTasks
<1>5. /\ ps = "acquire" =>
           ps' = "acquire" /\ test_semaphore' = [count |-> 1, max |-> 1, waiters |-> <<>>]
      /\ ps = "wait" =>
           ps' = "release" /\ test_semaphore' = [count |-> 0, max |-> 1, waiters |-> <<>>]
  <2>1. CASE ps = "acquire"
    <3>1. test_semaphore = [count |-> 0, max |-> 1, waiters |-> <<>>]
      BY <1>2, <2>1, SemaphoreFacts
    <3>. QED
      BY <1>1, <2>1, <3>1, SemaphoreRelease
  <2>2. CASE ps = "wait"
    <3>1. PICK t \in TestThread : test_semaphore = [count |-> 0, max |-> 1, waiters |-> <<t>>]
      BY <2>2, SemaphoreFacts
    <3>2. test_semaphore.waiters # <<>> /\ t \in ThreadId
      BY <3>1 DEF TestThread
    <3>. QED
      BY <1>1, <2>2, <3>1, <3>2, SemaphoreRelease
  <2>. QED BY <1>2, <2>1, <2>2
<1>6. /\ TestThread' = TestThread /\ MailboxThreads' = MailboxThreads /\ TaskBytes' = TaskBytes
      /\ TaskBytes \in Nat
  BY <1>1, ThreadsKept
<1>7. ThreadsOK'
  <2>1. \A d \in ThreadId : child'[d] # "none" <=> threads[d] = "task"
    BY <1>1, <1>3 DEF NInv, ThreadsOK
  <2>. QED
    BY <1>1, <2>1 DEF NInv, ThreadsOK, psRest
<1>8. HeapOK' /\ heap' \in Int
  <2>1. SemBytes = 24 /\ SemBytes' = 24
    BY <1>2, <1>5 DEF SemBytes
  <2>2. heap' = heap + 0
    BY <1>1, ByteTypes
  <2>. QED
    BY <1>1, <1>6, <2>1, <2>2, PsHeap
<1>9. /\ test_semaphore' \in Semaphore /\ test_semaphore' # NULL /\ test_semaphore'.waiters = <<>>
      /\ ps' = "acquire" => test_semaphore'.count = 1
      /\ ps' = "release" => test_semaphore'.count = 0
      /\ ps' \in {"acquire", "release"}
  <2>1. CASE ps = "acquire"
    BY <1>5, <2>1, EmptySemaphores
  <2>2. CASE ps = "wait"
    BY <1>5, <2>2, EmptySemaphores
  <2>. QED BY <1>2, <2>1, <2>2
<1>10. PsOK'
  <2>1. boot' = "running"
    BY <1>1 DEF psRest
  <2>. HIDE DEF RunningTasks, TestThread
  <2>. QED
    BY <1>4, <1>9, <2>1 DEF PsOK
<1>11. AppTypeOK'
  BY <1>1, <1>3, <1>8, <1>9 DEF NInv, AppTypeOK, psRest, libVars
<1>. QED
  BY <1>1, <1>7, <1>8, <1>10, <1>11, PsFrame DEF NInv

\* The task's thread is gone, and its memory back.
LEMMA TaskExitStep ==
    ASSUME NInv, boot = "running", NEW id \in ThreadId, os_wrapper_thread_exit(id)
    PROVE  NInv'
<1>1. /\ threads[id] = "task" /\ child[id] = "exit"
      /\ threads' = [threads EXCEPT ![id] = "none"] /\ child' = [child EXCEPT ![id] = "none"]
      /\ heap' = heap - 856
      /\ UNCHANGED <<psRest, ps, test_semaphore, tasks, starved>>
  <2>1. ThreadBlocks(PsAttr.stack_size) = 856
    BY Sizes
  <2>. QED
    BY <2>1 DEF os_wrapper_thread_exit, InTask
<1>2. /\ threads' \in [ThreadId -> Roles] /\ threads'[id] = "none"
      /\ \A d \in ThreadId : d # id => threads'[d] = threads[d]
      /\ child' \in [ThreadId -> {"none", "run", "exit"}] /\ child'[id] = "none"
      /\ \A d \in ThreadId : d # id => child'[d] = child[d]
  BY <1>1 DEF NInv, AppTypeOK, Roles
<1>3. TestThread' = TestThread /\ MailboxThreads' = MailboxThreads /\ RunningTasks' = RunningTasks
  BY <1>1, <1>2 DEF TestThread, MailboxThreads, RunningTasks
<1>4. TaskThreads' = TaskThreads \ {id} /\ id \in TaskThreads
  BY <1>1, <1>2 DEF TaskThreads
<1>5. TaskBytes = TaskBytes' + 856 /\ TaskBytes' \in Nat
  <2>1. /\ IsFiniteSet(TaskThreads \ {id})
        /\ Cardinality(TaskThreads \ {id}) = Cardinality(TaskThreads) - 1
    BY <1>4, FiniteThreads, FS_RemoveElement
  <2>2. Cardinality(TaskThreads') = Cardinality(TaskThreads \ {id})
    BY <1>4, Zenon
  <2>3. Cardinality(TaskThreads \ {id}) \in Nat
    BY <2>1, FS_CardinalityType
  <2>4. TaskBytes' = 856 * Cardinality(TaskThreads')
    BY DEF TaskBytes
  <2>5. TaskBytes = 856 * Cardinality(TaskThreads) /\ Cardinality(TaskThreads) \in Nat
    BY ByteTypes, FiniteThreads
  <2>6. \A n, m \in Nat : m = n - 1 => 856 * n = 856 * m + 856 /\ 856 * m \in Nat
    OBVIOUS
  <2>. QED
    BY <2>1, <2>2, <2>3, <2>4, <2>5, <2>6
<1>6. HeapOK' /\ heap' \in Int
  <2>1. SemBytes' = SemBytes /\ SemBytes \in Nat
    BY <1>1, ByteTypes DEF SemBytes
  <2>2. heap' = heap + (-856)
    BY <1>1, ByteTypes
  <2>3. TaskBytes' + SemBytes' = TaskBytes + SemBytes + (-856)
    BY <1>5, <2>1
  <2>. QED
    BY <1>1, <1>3, <1>5, <2>1, <2>2, <2>3, PsHeap
<1>7. ThreadsOK'
  <2>1. \A d \in ThreadId :
          /\ child'[d] # "none" <=> threads'[d] = "task"
          /\ threads'[d] = "task" => boot' = "running"
          /\ threads'[d] = "test" => boot' \in {"start", "running"}
          /\ threads'[d] = "mailbox" => boot' \in {"test_thread", "start", "running"}
    BY <1>1, <1>2 DEF NInv, ThreadsOK, psRest
  <2>2. \A a, b \in ThreadId :
          threads'[a] = threads'[b] /\ threads'[a] \in {"test", "mailbox"} => a = b
    BY <1>2 DEF NInv, ThreadsOK
  <2>. QED
    BY <2>1, <2>2 DEF ThreadsOK
<1>8. PsOK'
  <2>. HIDE DEF RunningTasks, TestThread
  <2>. QED
    BY <1>1, <1>3 DEF NInv, PsOK, psRest
<1>9. AppTypeOK'
  BY <1>1, <1>2, <1>6 DEF NInv, AppTypeOK, psRest, libVars
<1>. QED
  BY <1>1, <1>6, <1>7, <1>8, <1>9, PsFrame DEF NInv

-----------------------------------------------------------------------------
(* The invariant holds. *)

\* The invariant holds at reset.
LEMMA InitNInv ==
    ASSUME Init
    PROVE  NInv
<1>. USE DEF Init, LibInit
<1>1. osKernelInactive = 0 /\ osKernelReady = 1 /\ osKernelRunning = 2
  BY DEF osKernelInactive, osKernelReady, osKernelRunning
<1>2. OutOfLib \in LibRecord
  BY Callers, Sizes DEF OutOfLib, LibRecord, LibLabel
<1>3. AppTypeOK
  <2>1. lib \in [Caller -> LibRecord]
    BY <1>2
  <2>2. os_libspace_id \in [0 .. OS_THREAD_LIBSPACE_NUM - 1 -> Caller]
    BY Callers
  <2>3. threads \in [ThreadId -> Roles] /\ child \in [ThreadId -> {"none", "run", "exit"}]
    BY DEF Roles
  <2>4. raced \in BOOLEAN /\ failed \in BOOLEAN
    BY Zenon
  <2>5. boot \in BootLabel /\ heap \in Int /\ tasks \in Nat /\ starved \in Int
    BY DEF BootLabel
  <2>. QED
    BY <1>1, <2>1, <2>2, <2>3, <2>4, <2>5 DEF AppTypeOK
<1>4. BootOK
  BY <1>1 DEF BootOK
<1>5. ThreadsOK
  BY DEF ThreadsOK
<1>6. HeapOK
  <2>1. MailboxThreads = {} /\ TestThread = {} /\ TaskThreads = {}
    BY DEF MailboxThreads, TestThread, TaskThreads
  <2>2. Cardinality(TaskThreads) = 0
    BY <2>1, FS_EmptySet, Zenon
  <2>3. /\ KernelBytes = 0 /\ ClibBytes = 0 /\ MailboxBytes = 0 /\ SemBytes = 0
        /\ MailboxThreadBytes = 0 /\ TestBytes = 0 /\ TaskBytes = 0
    BY <2>1, <2>2 DEF KernelBytes, ClibBytes, MailboxBytes, SemBytes, MailboxThreadBytes, TestBytes, TaskBytes
  <2>. QED
    BY <2>3 DEF HeapOK
<1>7. \A c \in Caller : lib[c] = OutOfLib /\ lib[c].pc = "out"
  BY DEF OutOfLib
<1>8. LibOK
  BY <1>7, Callers DEF LibOK, SearchOK
<1>9. EntriesOK
  BY DEF EntriesOK
<1>10. MutexOK
  BY <1>7 DEF MutexOK, Inside
<1>12. PsOK
  BY DEF PsOK, RunningTasks
<1>. QED
  BY <1>3, <1>4, <1>5, <1>6, <1>8, <1>9, <1>10, <1>12 DEF NInv

\* A stutter keeps the invariant.
LEMMA StutterNInv ==
    ASSUME NInv, UNCHANGED vars
    PROVE  NInv'
<1>1. UNCHANGED <<kernel, appVars>> /\ UNCHANGED libVars /\ UNCHANGED psRest
  BY DEF vars, appVars, psRest
<1>2. BootOK' /\ ThreadsOK' /\ HeapOK' /\ PsOK'
  <2>1. (clib_mutex' = NULL <=> clib_mutex = NULL) /\ (os_kernel_active' = 1 => boot = "running")
    BY <1>1 DEF libVars, NInv, BootOK
  <2>. QED
    BY <1>1, <2>1, LibFrame
<1>3. LibOK' /\ EntriesOK' /\ MutexOK'
  BY <1>1, PsFrame
<1>4. AppTypeOK'
  BY <1>1 DEF NInv, AppTypeOK, appVars, libVars
<1>. QED
  BY <1>2, <1>3, <1>4 DEF NInv

\* Every step of main, threads, helper and library keeps the invariant.
LEMMA NextNInv ==
    ASSUME NInv, [Next]_vars
    PROVE  NInv'
<1>1. CASE Booting /\ lib[Main].pc = "out" /\ BootStep
  BY <1>1, MainStep DEF Booting
<1>2. CASE Booting /\ (call_library(Main) \/ library_step(Main))
  BY <1>2, Callers, LibraryStep DEF Booting
<1>3. CASE Running /\ HelperStep
  BY <1>3, PsSemaphoreStep, PsThreadStep, PsAcquireStep, PsFinishStep DEF Running, HelperStep
<1>4. ASSUME Running, NEW id \in ThreadId, TaskStep(id) \/ call_library(id) \/ library_step(id)
      PROVE  NInv'
  <2>1. CASE TaskStep(id)
    BY <1>4, <2>1, TaskReleaseStep, TaskExitStep DEF Running, TaskStep
  <2>2. CASE call_library(id) \/ library_step(id)
    BY <1>4, <2>2, Callers, LibraryStep DEF Running
  <2>. QED BY <1>4, <2>1, <2>2
<1>5. CASE Idle \/ UNCHANGED vars
  BY <1>5, StutterNInv DEF Idle
<1>. QED
  BY <1>1, <1>2, <1>3, <1>4, <1>5 DEF Next

\* In every build, the application keeps the inductive invariant: what the
\* boot has set up, what the bytes of os_mem belong to, who is in the library
\* with which space, and where the storage test's helper and task are.
THEOREM AppInvariance == Spec => []NInv
<1>1. Init => NInv
  BY InitNInv
<1>2. NInv /\ [Next]_vars => NInv'
  BY NextNInv
<1>. QED
  BY <1>1, <1>2, PTL DEF Spec

\* Callers in the C library have different spaces, for any number of threads,
\* unless one was preempted between its test of an entry and its claim.
THEOREM LibspacePrivateHolds == Spec => []LibspacePrivate
<1>1. NInv => LibspacePrivate
  <2>. SUFFICES ASSUME NInv, ~raced, NEW c \in InLib, NEW d \in InLib, lib[c].space = lib[d].space
                PROVE  c = d
    BY DEF LibspacePrivate, LibspaceForThread
  <2>1. c \in Caller /\ d \in Caller /\ lib[c].pc \in {"using", "inside"} /\ lib[d].pc \in {"using", "inside"}
    BY DEF InLib
  <2>2. CASE c \in ThreadId /\ d \in ThreadId
    <3>1. SearchOK(c) /\ SearchOK(d)
      BY <2>2 DEF NInv, LibOK
    <3>. QED
      BY <2>1, <3>1 DEF SearchOK
  <2>3. CASE c = Main \/ d = Main
    <3>1. boot # "running"
      BY <2>1, <2>3 DEF NInv, LibOK
    <3>2. \A x \in ThreadId : lib[x].pc = "out"
      BY <3>1, BootFacts
    <3>. QED
      BY <2>1, <3>2, Callers
  <2>. QED
    BY <2>1, <2>2, <2>3, Callers
<1>. QED
  BY <1>1, AppInvariance, PTL

\* The library's critical section has one thread at a time once the kernel
\* runs, the one that has the mutex, although _mutex_acquire drops the status
\* of the kernel's call.
THEOREM ClibMutexExclusiveHolds ==
    Spec => [](ClibMutexExclusive /\ (kernel = osKernelRunning => \A c, d \in Inside : c = d))
<1>1. NInv => ClibMutexExclusive /\ (kernel = osKernelRunning => \A c, d \in Inside : c = d)
  BY DEF NInv, MutexOK, BootOK, ClibMutexExclusive, Inside
<1>. QED
  BY <1>1, AppInvariance, PTL

\* A storage test's task runs only while its call of tfm_ps_run_test waits for
\* it with the semaphore in place, and a call that waits will be released.
THEOREM TaskWithinHelperHolds == Spec => []TaskWithinHelper
<1>1. NInv => TaskWithinHelper
  <2>. SUFFICES ASSUME NInv PROVE TaskWithinHelper
    OBVIOUS
  <2>1. ASSUME NEW id \in ThreadId, child[id] = "run"
        PROVE  ps \in {"acquire", "wait"} /\ test_semaphore # NULL
    <3>1. id \in RunningTasks
      BY <2>1 DEF RunningTasks
    <3>2. ps \notin {"idle", "thread", "release"}
      BY <3>1 DEF NInv, PsOK
    <3>. QED
      BY <3>2 DEF NInv, PsOK, AppTypeOK
  <2>2. ps = "wait" =>
          /\ \E id \in ThreadId : child[id] = "run"
          /\ \E id \in TestThread : test_semaphore.waiters = <<id>>
    <3>1. ps = "wait" => RunningTasks # {} /\ \E id \in TestThread : test_semaphore.waiters = <<id>>
      BY DEF NInv, PsOK
    <3>2. RunningTasks # {} => \E id \in ThreadId : child[id] = "run"
      BY DEF RunningTasks
    <3>. QED BY <3>1, <3>2
  <2>. QED
    BY <2>1, <2>2 DEF TaskWithinHelper
<1>. QED
  BY <1>1, AppInvariance, PTL

-----------------------------------------------------------------------------
(* The memory is enough for mailboxes of up to eleven slots: with a twelfth  *)
(* the third task's thread can already find too little.                      *)

\* What the objects other than tasks need at most.
LEMMA Bounds ==
    ASSUME NInv, NUM_MAILBOX_QUEUE_SLOT <= 11
    PROVE  /\ KernelBytes + ClibBytes \in 0 .. 56
           /\ MailboxBytes \in 0 .. 248 /\ MailboxBlocks \in 0 .. 248
           /\ MailboxThreadBytes \in 0 .. 1112 /\ TestBytes \in 0 .. 4184 /\ SemBytes \in 0 .. 24
<1>1. KernelBytes \in 0 .. 16 /\ ClibBytes \in 0 .. 40
  BY DEF KernelBytes, ClibBytes
<1>2. MailboxBlocks \in 0 .. 248
  <2>1. MailboxBlocks = IF build.interface = "mailbox" THEN 24 ELSE 16 * NUM_MAILBOX_QUEUE_SLOT + 72
    BY Sizes
  <2>. QED
    BY <2>1, SlotAssumption
<1>3. MailboxBytes \in 0 .. 248
  BY <1>2 DEF MailboxBytes
<1>4. MailboxThreadBytes \in 0 .. 1112 /\ TestBytes \in 0 .. 4184 /\ SemBytes \in 0 .. 24
  BY DEF MailboxThreadBytes, TestBytes, SemBytes
<1>. QED
  BY <1>1, <1>2, <1>3, <1>4

\* main's own objects always fit.
LEMMA MainFits ==
    ASSUME NInv, NUM_MAILBOX_QUEUE_SLOT <= 11, boot # "running", boot # "halt", boot # "start"
    PROVE  Fits(4184) /\ Fits(1112) /\ Fits(MailboxBlocks)
<1>1. heap \in 0 .. 1416
  <2>1. TestBytes = 0 /\ TaskBytes = 0 /\ SemBytes = 0
    BY BootFacts
  <2>2. heap = (KernelBytes + ClibBytes) + MailboxBytes + MailboxThreadBytes
    BY <2>1, ByteTypes DEF NInv, HeapOK
  <2>3. PICK k \in 0 .. 56 : k = KernelBytes + ClibBytes
    BY Bounds
  <2>4. PICK m \in 0 .. 248 : m = MailboxBytes
    BY Bounds
  <2>5. PICK t \in 0 .. 1112 : t = MailboxThreadBytes
    BY Bounds
  <2>6. heap = k + m + t
    BY <2>2, <2>3, <2>4, <2>5
  <2>7. k + m + t \in 0 .. 1416
    OBVIOUS
  <2>. QED
    BY <2>6, <2>7
<1>2. MailboxBlocks \in 0 .. 248
  BY Bounds
<1>. QED
  BY <1>1, <1>2, Sizes

Refused ==
    \/ ps = "idle" /\ ~Fits(24)
    \/ ps = "thread" /\ ~Fits(856)

\* A creation in the helper that fails leaves at least three tasks' threads, all
\* of them on their way to the exit.
LEMMA ShortOfMemory ==
    ASSUME NInv, NUM_MAILBOX_QUEUE_SLOT <= 11, boot = "running",
           Refused
    PROVE  Cardinality(Lingering) >= 3
<1>1. Lingering = TaskThreads
  <2>1. RunningTasks = {}
    BY DEF NInv, PsOK, Refused
  <2>. QED
    BY <2>1 DEF NInv, AppTypeOK, ThreadsOK, RunningTasks, Lingering, TaskThreads
<1>2. Cardinality(Lingering) = Cardinality(TaskThreads)
  BY <1>1, Zenon
<1>3. PICK k \in 0 .. 56 : k = KernelBytes + ClibBytes
  BY Bounds
<1>4. PICK m \in 0 .. 248 : m = MailboxBytes
  BY Bounds
<1>5. PICK t \in 0 .. 1112 : t = MailboxThreadBytes
  BY Bounds
<1>6. PICK u \in 0 .. 4184 : u = TestBytes
  BY Bounds
<1>7. PICK b \in 0 .. 24 : b = SemBytes
  BY Bounds
<1>8. PICK n \in Nat : n = Cardinality(TaskThreads)
  BY FiniteThreads
<1>9. heap = k + m + t + u + 856 * n + b
  <2>1. heap = (KernelBytes + ClibBytes) + MailboxBytes + MailboxThreadBytes + TestBytes + TaskBytes + SemBytes
    BY DEF NInv, HeapOK
  <2>2. TaskBytes = 856 * Cardinality(TaskThreads)
    BY ByteTypes
  <2>. QED
    BY <1>3, <1>4, <1>5, <1>6, <1>7, <1>8, <2>1, <2>2
<1>10. /\ k + m + t + u + 856 * n + b + 856 > 8192 => n >= 3
       /\ b = 0 /\ k + m + t + u + 856 * n + b + 24 > 8192 => n >= 3
  OBVIOUS
<1>11. n >= 3
  <2>1. CASE ps = "idle" /\ ~Fits(24)
    <3>1. b = 0
      BY <1>7, <2>1 DEF SemBytes
    <3>2. heap + 24 > 8192
      BY <1>9, <2>1, Sizes
    <3>. QED
      BY <1>9, <1>10, <3>1, <3>2
  <2>2. CASE ps = "thread" /\ ~Fits(856)
    <3>1. heap + 856 > 8192
      BY <1>9, <2>2, Sizes
    <3>. QED
      BY <1>9, <1>10, <3>1
  <2>. QED BY <2>1, <2>2 DEF Refused
<1>. QED
  BY <1>2, <1>8, <1>11

\* What a step has to keep.
LEMMA SufficientKept ==
    ASSUME Sufficient, UNCHANGED <<build, boot, failed>>,
           \A id \in ThreadId : threads[id] \in {"test", "mailbox"} => threads'[id] = threads[id],
           starved' = starved \/ starved' >= 3
    PROVE  Sufficient'
<1>1. TestThread \subseteq TestThread' /\ MailboxThreads \subseteq MailboxThreads'
  BY DEF TestThread, MailboxThreads
<1>. HIDE DEF TestThread, MailboxThreads
<1>. QED
  BY <1>1 DEF Sufficient

\* main finds the memory it asks for.
LEMMA SufficientBoot ==
    ASSUME NInv, Sufficient, NUM_MAILBOX_QUEUE_SLOT <= 11, boot # "running", BootStep
    PROVE  Sufficient'
<1>1. CASE init_hook \/ clib_init \/ main_kernel_initialize
  <2>1. boot' \in {"clib", "platform", "interface", "sync"} /\ starved' = starved
    BY <1>1 DEF init_hook, clib_init, main_kernel_initialize, BootGoto, bootRest
  <2>. QED
    BY <2>1 DEF Sufficient
<1>2. CASE tfm_ns_platform_init \/ tfm_ns_cp_init \/ tfm_ns_wait_for_s_cpu_ready
  <2>1. /\ boot' \in {"cp", "kernel", "mailbox", "halt"} /\ starved' = starved
        /\ boot' = "halt" => failed'
    BY <1>2 DEF tfm_ns_platform_init, tfm_ns_cp_init, tfm_ns_wait_for_s_cpu_ready, Checked, BootGoto, bootRest
  <2>. QED
    BY <2>1 DEF Sufficient
<1>3. CASE tfm_ns_interface_init
  <2>1. boot' = "test_thread" /\ UNCHANGED <<build, starved>> /\ build.interface = "trustzone"
    BY <1>3 DEF tfm_ns_interface_init, BootGoto, bootRest, NInv, BootOK
  <2>. QED
    BY <2>1 DEF Sufficient
<1>4. CASE tfm_ns_mailbox_init
  <2>1. boot = "mailbox" /\ boot # "running" /\ boot # "halt" /\ boot # "start"
    BY <1>4 DEF tfm_ns_mailbox_init
  <2>2. Fits(MailboxBlocks)
    BY <2>1, MainFits
  <2>3. /\ boot' \in {"mailbox_thread", "test_thread", "halt"} /\ UNCHANGED <<build, starved>>
        /\ boot' = "test_thread" => build.interface # "mailbox_thread"
        /\ boot' = "halt" => failed'
    BY <1>4, <2>2 DEF tfm_ns_mailbox_init, BootGoto, bootRest
  <2>. QED
    BY <2>3 DEF Sufficient
<1>5. CASE create_mailbox_thread
  <2>1. /\ boot = "mailbox_thread" /\ boot' = "test_thread" /\ UNCHANGED <<build, starved>>
        /\ osThreadNew("mailbox", mailbox_thread_attr)
    BY <1>5 DEF create_mailbox_thread, BootGoto
  <2>2. Fits(1112) /\ TaskThreads = {}
    BY <2>1, MainFits, BootFacts
  <2>3. mailbox_thread_attr.stack_size = 1024 /\ ThreadBlocks(1024) = 1112
    BY Sizes DEF mailbox_thread_attr
  <2>4. threads' = [threads EXCEPT ![NextId] = "mailbox"] /\ heap' = heap + 1112
    BY <2>1, <2>2, <2>3 DEF osThreadNew
  <2>5. PICK size \in Nat : size = 1112
    OBVIOUS
  <2>6. MadeBy("mailbox", size, NextId)
    <3>1. boot # "halt" /\ size >= 856
      BY <2>1, <2>5
    <3>2. Fits(size) /\ heap' = heap + size
      BY <2>2, <2>4, <2>5
    <3>3. threads' = [threads EXCEPT ![NextId] = "mailbox"]
      BY <2>4
    <3>4. TaskThreads = {}
      BY <2>2
    <3>. QED
      BY <3>1, <3>2, <3>3, <3>4, ThreadMade
  <2>7. PICK id : MadeBy("mailbox", size, id)
    BY <2>6
  <2>8. id \in MailboxThreads'
    BY <2>7 DEF MadeBy, MailboxThreads, NInv, AppTypeOK
  <2>. QED
    BY <2>1, <2>8 DEF Sufficient
<1>6. CASE create_test_thread
  <2>1. /\ boot = "test_thread" /\ boot' = "start" /\ UNCHANGED <<build, starved>>
        /\ osThreadNew("test", thread_attr)
    BY <1>6 DEF create_test_thread, BootGoto
  <2>2. Fits(4184) /\ TaskThreads = {}
    BY <2>1, MainFits, BootFacts
  <2>3. thread_attr.stack_size = 4096 /\ ThreadBlocks(4096) = 4184
    BY Sizes DEF thread_attr
  <2>4. threads' = [threads EXCEPT ![NextId] = "test"] /\ heap' = heap + 4184
    BY <2>1, <2>2, <2>3 DEF osThreadNew
  <2>5. PICK size \in Nat : size = 4184
    OBVIOUS
  <2>6. MadeBy("test", size, NextId)
    <3>1. boot # "halt" /\ size >= 856
      BY <2>1, <2>5
    <3>2. Fits(size) /\ heap' = heap + size
      BY <2>2, <2>4, <2>5
    <3>3. threads' = [threads EXCEPT ![NextId] = "test"]
      BY <2>4
    <3>4. TaskThreads = {}
      BY <2>2
    <3>. QED
      BY <3>1, <3>2, <3>3, <3>4, ThreadMade
  <2>7. PICK id : MadeBy("test", size, id)
    BY <2>6
  <2>8. id \in TestThread' /\ MailboxThreads \subseteq MailboxThreads'
    BY <2>7 DEF MadeBy, TestThread, MailboxThreads, NInv, AppTypeOK
  <2>. QED
    BY <2>1, <2>8 DEF Sufficient
<1>7. CASE osKernelStart
  <2>1. boot = "start" /\ kernel = osKernelReady /\ SystemObjectsFit
    <3>1. SystemObjectsFit
      BY Sizes
    <3>. QED
      BY <1>7, <3>1 DEF osKernelStart, NInv, BootOK
  <2>2. boot' = "running" /\ UNCHANGED <<build, starved, threads>>
    BY <1>7, <2>1 DEF osKernelStart, BootGoto, bootRest
  <2>3. TestThread' = TestThread /\ MailboxThreads' = MailboxThreads
    BY <2>2 DEF TestThread, MailboxThreads
  <2>. QED
    BY <2>1, <2>2, <2>3 DEF Sufficient
<1>. QED
  BY <1>1, <1>2, <1>3, <1>4, <1>5, <1>6, <1>7 DEF BootStep

\* The helper is refused memory only while tasks linger.
LEMMA SufficientHelper ==
    ASSUME NInv, Sufficient, NUM_MAILBOX_QUEUE_SLOT <= 11, boot = "running", HelperStep
    PROVE  Sufficient'
<1>1. UNCHANGED <<build, boot, failed>>
  BY DEF HelperStep, ps_semaphore, ps_thread, ps_acquire, ps_finish, psRest
<1>2. CASE ps_semaphore
  <2>1. ps = "idle" /\ UNCHANGED threads
    BY <1>2 DEF ps_semaphore, InTestThread
  <2>2. SemBlock = 24
    BY Sizes
  <2>3. CASE Fits(24)
    BY <1>1, <1>2, <2>1, <2>2, <2>3, SufficientKept DEF ps_semaphore
  <2>4. CASE ~Fits(24)
    <3>1. Refused
      BY <2>1, <2>4 DEF Refused
    <3>2. starved' = Cardinality(Lingering)
      BY <1>2, <2>2, <2>4 DEF ps_semaphore
    <3>3. starved' >= 3
      BY <3>1, <3>2, ShortOfMemory
    <3>. QED
      BY <1>1, <2>1, <3>3, SufficientKept
  <2>. QED BY <2>3, <2>4
<1>3. CASE ps_thread
  <2>1. ps = "thread" /\ TestThread # {}
    BY <1>3 DEF ps_thread, InTestThread
  <2>2. ThreadBlocks(PsAttr.stack_size) = 856 /\ OwnPriority.ret # OS_WRAPPER_ERROR
    BY Sizes
  <2>3. CASE Fits(856)
    <3>1. threads' = [threads EXCEPT ![NextId] = "task"] /\ heap' = heap + 856 /\ UNCHANGED starved
      BY <1>3, <2>2, <2>3 DEF ps_thread
    <3>2. PICK size \in Nat : size = 856
      OBVIOUS
    <3>3. MadeBy("task", size, NextId)
      <4>1. boot # "halt" /\ size >= 856
        BY <3>2
      <4>2. Fits(size) /\ heap' = heap + size
        BY <2>3, <3>1, <3>2
      <4>3. threads' = [threads EXCEPT ![NextId] = "task"]
        BY <3>1
      <4>. QED
        BY <2>1, <4>1, <4>2, <4>3, ThreadMade
    <3>4. \A id \in ThreadId : threads[id] \in {"test", "mailbox"} => threads'[id] = threads[id]
      BY <3>3 DEF MadeBy, NInv, AppTypeOK
    <3>. QED
      BY <1>1, <3>1, <3>4, SufficientKept
  <2>4. CASE ~Fits(856)
    <3>1. Refused
      BY <2>1, <2>4 DEF Refused
    <3>2. starved' = Cardinality(Lingering) /\ UNCHANGED threads
      BY <1>3, <2>2, <2>4 DEF ps_thread
    <3>3. starved' >= 3
      BY <3>1, <3>2, ShortOfMemory
    <3>. QED
      BY <1>1, <3>2, <3>3, SufficientKept
  <2>. QED BY <2>3, <2>4
<1>4. CASE ps_acquire \/ ps_finish
  <2>1. UNCHANGED <<threads, starved>>
    BY <1>4 DEF ps_acquire, ps_finish
  <2>. QED
    BY <1>1, <2>1, SufficientKept
<1>. QED
  BY <1>2, <1>3, <1>4 DEF HelperStep

\* Every step keeps the memory sufficient.
LEMMA SufficientNext ==
    ASSUME NInv, Sufficient, NUM_MAILBOX_QUEUE_SLOT <= 11, [Next]_vars
    PROVE  Sufficient'
<1>1. CASE Booting /\ lib[Main].pc = "out" /\ BootStep
  BY <1>1, SufficientBoot DEF Booting
<1>2. CASE Running /\ HelperStep
  BY <1>2, SufficientHelper DEF Running
<1>3. ASSUME NEW id \in ThreadId, TaskStep(id) PROVE Sufficient'
  <2>1. UNCHANGED <<build, boot, failed, starved>>
    BY <1>3 DEF TaskStep, task_release, os_wrapper_thread_exit, psRest
  <2>2. \A d \in ThreadId : threads[d] \in {"test", "mailbox"} => threads'[d] = threads[d]
    BY <1>3 DEF TaskStep, task_release, os_wrapper_thread_exit, InTask, NInv, AppTypeOK
  <2>. QED
    BY <2>1, <2>2, SufficientKept
<1>4. CASE UNCHANGED appVars
  <2>1. UNCHANGED <<build, boot, failed, threads, starved>>
    BY <1>4 DEF appVars
  <2>. QED
    BY <2>1, SufficientKept
<1>5. ASSUME NEW c, call_library(c) \/ library_step(c) PROVE UNCHANGED appVars
  BY <1>5 DEF call_library, library_step
<1>6. Idle \/ UNCHANGED vars => UNCHANGED appVars
  BY DEF Idle, vars
<1>. QED
  BY <1>1, <1>2, <1>3, <1>4, <1>5, <1>6 DEF Next

\* The memory is sufficient throughout.
LEMMA SufficientAlways ==
    ASSUME NUM_MAILBOX_QUEUE_SLOT <= 11
    PROVE  Spec => []Sufficient
<1>1. Init => Sufficient
  BY DEF Init, Sufficient
<1>2. NInv /\ Sufficient /\ [Next]_vars => Sufficient'
  BY SufficientNext
<1>. QED
  BY <1>1, <1>2, AppInvariance, PTL DEF Spec

\* With a mailbox of up to eleven slots os_mem is enough in every build: main's
\* threads exist although it drops the status of osThreadNew, and a storage
\* test fails for want of memory only behind three tasks that have not exited.
THEOREM MemorySufficesHolds ==
    ASSUME NUM_MAILBOX_QUEUE_SLOT <= 11
    PROVE  Spec => []MemorySuffices
<1>1. NInv /\ Sufficient => MemorySuffices
  <2>. SUFFICES ASSUME NInv, Sufficient PROVE MemorySuffices
    OBVIOUS
  <2>1. kernel = osKernelRunning => boot = "running"
    BY DEF NInv, BootOK
  <2>2. MailboxThreads # {} => \E id \in ThreadId : threads[id] = "mailbox"
    BY DEF MailboxThreads
  <2>. QED
    BY <2>1, <2>2 DEF Sufficient, MemorySuffices
<1>. QED
  BY <1>1, AppInvariance, SufficientAlways, PTL

\* A thread hangs in osRtxErrorNotify only while every entry of os_libspace_id
\* belongs to another thread, and no two to the same.
LEMMA ErrorExplained ==
    ASSUME NInv, NEW c \in ThreadId, lib[c].pc = "failed"
    PROVE  /\ c \notin Range(os_libspace_id)
           /\ Cardinality(Range(os_libspace_id) \ {NoId}) = OS_THREAD_LIBSPACE_NUM
<1>. DEFINE R == Range(os_libspace_id) \ {NoId}
<1>2. \A j \in 0 .. 3 : os_libspace_id[j] # NoId /\ os_libspace_id[j] # c
  BY Sizes DEF NInv, LibOK, SearchOK
<1>3. os_libspace_id \in [0 .. 3 -> Caller] /\ DOMAIN os_libspace_id = 0 .. 3
  BY Sizes DEF NInv, AppTypeOK
<1>4. c \notin Range(os_libspace_id)
  BY <1>2, <1>3 DEF Range
<1>5. \A j, k \in 0 .. 3 : os_libspace_id[j] = os_libspace_id[k] => j = k
  BY <1>2, <1>3 DEF NInv, EntriesOK
<1>6. os_libspace_id \in [0 .. 3 -> R]
  BY <1>2, <1>3 DEF Range
<1>7. \A t \in R : \E j \in 0 .. 3 : os_libspace_id[j] = t
  BY <1>3 DEF Range
<1>8. ExistsBijection(0 .. 3, R)
  <2>. HIDE DEF R
  <2>1. os_libspace_id \in Injection(0 .. 3, R)
    BY <1>3, <1>5, <1>6 DEF Injection, IsInjective
  <2>2. os_libspace_id \in Surjection(0 .. 3, R)
    BY <1>6, <1>7 DEF Surjection
  <2>3. os_libspace_id \in Bijection(0 .. 3, R)
    BY <2>1, <2>2 DEF Bijection
  <2>. QED
    BY <2>3 DEF ExistsBijection
<1>9. IsFiniteSet(0 .. 3) /\ Cardinality(0 .. 3) = 4
  <2>1. 0 \in Int /\ 3 \in Int
    OBVIOUS
  <2>2. IsFiniteSet(0 .. 3) /\ Cardinality(0 .. 3) = IF 0 > 3 THEN 0 ELSE 3 - 0 + 1
    BY <2>1, FS_Interval
  <2>. QED BY <2>2
<1>10. Cardinality(R) = 4
  <2>. HIDE DEF R
  <2>. QED BY <1>8, <1>9, FS_Bijection
<1>. QED
  BY <1>4, <1>10, Sizes

\* With a mailbox of up to eleven slots main halts only after a failure it
\* checks for; and however many threads there are, one hangs in osRtxErrorNotify
\* only if every library space is another thread's, whatever the threads that go
\* on claim or overwrite after it has hung.
THEOREM HaltExplainedHolds ==
    ASSUME NUM_MAILBOX_QUEUE_SLOT <= 11
    PROVE  Spec => []HaltExplained
<1>1. NInv /\ Sufficient => HaltExplained
  <2>. SUFFICES ASSUME NInv, Sufficient PROVE HaltExplained
    OBVIOUS
  <2>1. lib[Main].pc # "failed"
    BY DEF NInv, LibOK
  <2>2. ASSUME NEW c \in ThreadId, lib[c].pc = "failed"
        PROVE  /\ c \notin Range(os_libspace_id)
               /\ Cardinality(Range(os_libspace_id) \ {NoId}) = OS_THREAD_LIBSPACE_NUM
    BY <2>2, ErrorExplained
  <2>. QED
    BY <2>1, <2>2 DEF Sufficient, HaltExplained
<1>. QED
  BY <1>1, AppInvariance, SufficientAlways, PTL
=============================================================================
