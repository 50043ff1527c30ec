# Verification of tf-m-tests

This directory holds TLA+ models of the TF-M test repository: the non-secure
support code that the tests run on (application start, RTX configuration, RTOS
wrapper, NSID manager, TrustZone shim, mailbox RTOS layer, log, eRPC), the test
framework, and the test suites and test services that keep state or run
concurrently.  TLC checks every model on small instances; TLAPS
proves the safety of the shim, the mailbox, the multi-core suite, eRPC, the
log, the application on RTX, the framework and the IRQ services for every value
of the constants.

    tlc -workers 2 -config MCTzContext.cfg MCTzContext
    tlapm TzContext_proofs.tla

`PROJECT.json` lists the components, the runs, the lines each definition
stands for, the hazards and the theorems.

## 1. The system

| Component | State | Operations | Interacts with |
|---|---|---|---|
| NSID manager (`lib/nsid_manager/tfm_nsid_manager.c`, `app_broker/tfm_nsid_map_table.c`) | table of (token, NSID) pairs | init, add, remove, query; thread name to NSID | called by the TZ shim and by `os_wrapper_thread_new` |
| TZ shim (`lib/nsid_manager/tz_shim_layer.c`) | next thread ID, `current_active_token` | init, alloc, free, load, store | called by RTX on thread creation, exit and every switch; calls the secure `ns_client_ext` |
| Mailbox RTOS layer (`lib/multi_core/`) | semaphore or message queue, thread flags, two statistics counters | lock, send and receive, wait and wake, spin lock, statistics | called by TF-M's mailbox in client threads, in the mailbox thread and in an interrupt handler |
| Multi-core suite (`suites/multi_core`) | the parent's and the children's parameters, a mutex | three tests | RTOS wrapper, mailbox, ITS service |
| RTOS wrapper (`app_broker/os_wrapper_cmsis_rtos_v2.c`) | none of its own | one CMSIS-RTOS2 call each | everything |
| Application entry (`app_broker/main_ns.c`) | how far the start has come | platform, kernel, mailbox and thread creation, scheduler start | RTX, the secure side, the test thread |
| RTX configuration and C library interface (`lib/ext/CMSIS/RTOS2/RTX`) | `os_mem`, `os_libspace_id`, `os_kernel_active` | the configuration record; library space and mutex of a thread | kernel, C library |
| Test framework (`test/framework`) | suite table, the `test_result_t` that the tests of a suite share | run suites, run tests, report | every suite |
| IPC, SFN, mmiovec and client API services and suites (`suites/spm`) | connections, the service's `connect_cnt`, `first_handle` and private data | connect, call, close; the service's message loop | the SPM between secure client, non-secure client, client partition and service partition |
| IRQ services (`suites/spm/irq`) | `test_type`, `flih_timer_triggered`, timer, interrupt, signal | three test cases, a handler | thread, interrupt handler and timer |
| ITS suites (`suites/its`) | the assets in the store, which outlive a reset | 21 common tests, secure, reliability and non-secure extras | storage service |
| PS suites, rollback protection, NV counters (`suites/ps`) | assets, NV counters | like ITS; counter manipulation | storage service |
| FWU, crypto, attestation, NSID, FPU, QCBOR and t_cose suites | firmware components, keys and operations, tokens, registers | scripts | their services |
| eRPC (`erpc/`) | the request, the blocks the server allocates for it | start of client and server, five PSA calls | client program, transport, server loop, SPM |
| Log (`lib/log`) | a buffer on the caller's stack | formatted output | everything |
| Boot-loader tests (`tests_reg/.../bl1`, `bl2`, `mcuboot`) | images in flash | known-answer tests | boot loader |

### What is hard

- Threads are switched at any point: which NSID does the secure side attribute
  to the running thread, when RTX ignores the status of the shim's calls?
- Thread IDs, table entries, mailbox slots, SPM connections and RTOS threads run
  out; what was acquired before the failure must be accounted for.
- Replies come back in any order, one interrupt stands for several of them, and
  a reply may precede the wait for it.
- The mailbox statistics are read and written in different critical sections.
- Child threads use parameters and a mutex on their parent's stack; the parent
  polls for their end under that mutex.
- An interrupt handler shares variables with a thread without protection, and
  interrupts keep arriving after the thread has stopped waiting for them.
- The tests of a suite share one result; an invalid suite ends the run early.
- Early returns leave connections or assets behind, which tests after them meet.
- A reset may come between any two storage calls, and the suites start again on
  what is left, perhaps with other firmware.
- A remote call fails at any of a dozen points on two machines: what has been
  executed, what does the caller see, what stays allocated or open?
- `main` drops the status of every kernel call, and threads that are done but
  have not exited still hold their memory.
- The C library's per-thread spaces are handed out without a lock.
- A test is only worth something if it fails on a broken service: a verdict has
  to be exact in both directions.

### What makes each part correct

- Shim and NSID manager: a running thread has its own NSID on the secure side,
  `current_active_token` is the secure side's, the table holds exactly the live
  threads, no secure context is lost except when the table is full.
- eRPC: a call is executed at most once and as it was made, its result reaches
  the caller or the caller's vectors stay as they were, the server frees what it
  allocates, and it stops only after a failure.
- Application and RTX: the configured memory suffices for every build, main
  and threads hang only for a reason, a storage test's thread stays within the call
  that owns its parameters, threads have private library spaces.
- Log: nothing of a message is lost, every number is printed exactly.
- Mailbox layer: mutual exclusion on slots, no reply to the wrong task, no lost
  wake-up, every call returns.
- Multi-core suite: no child outlives its parent's stack frame, the printed
  statistics and the verdict are exact, and the suite ends.
- Framework: the verdicts of tests, suites and run agree.
- SPM and storage suites: no false alarm, every listed defect is found, nothing
  is left behind, the suites end.
- IRQ services: nothing is left asserted, a test ends only after its interrupts,
  and it ends.

## 2. The modules

| Module | Models | Checked by |
|---|---|---|
| `NsidManager` | the table and its four operations, the thread names | through `TzContext` |
| `NsidMap` | abstract: a partial map from tokens to NSIDs | `MapSpec` in `tz_context`, tlapm |
| `TzContext` | the five `TZ_*_S` calls, RTX and `ns_client_ext` around them (external) | `tz_context` |
| `TzContext_proofs` | theorems about the table and the shim | tlapm |
| `ClientCall` | abstract: a client call goes out and comes back, at most one per task | `CallSpec` in `mailbox` |
| `OsWrapper` | the RTOS wrapper with its error paths, over kernel objects as values (external) | through its users |
| `NsMailbox`, `NsMailboxClients`, `NsMailbox_proofs` | RTOS layer and statistics in both builds, under TF-M's mailbox (external); client tasks | `mailbox`, tlapm |
| `MultiCoreTest`, `MultiCoreTest_proofs` | the three multi-core tests, over `ClientCall` and `OsWrapper` | `multi_core_suite`, tlapm |
| `RtxConfig` | the values of `RTX_Config.h`, the objects and the record `osRtxConfig` of `rtx_lib.c`, object sizes | through `NsApp` |
| `RtxLib` | the C library interface of `rtx_lib.c`, one step per access of shared data | through `NsApp` |
| `NsApp`, `NsApp_proofs` | `main_ns.c` from reset on, the storage tests' thread helper, on `RtxLib` | `ns_app`, `ns_app_libspace`, tlapm |
| `RemoteCall` | abstract: a request is executed at most once and returns or fails | `RemoteSpec` in `erpc` |
| `Erpc`, `Erpc_proofs` | both programs' start, both wrappers, the five shims of either side; library and SPM external | `erpc`, tlapm |
| `Log`, `Log_proofs` | the formatter, in several threads | `log`, tlapm |
| `IrqTest`, `IrqTest_proofs` | both IRQ services with handler and timer | `irq_tests`, tlapm |
| `TestFramework`, `TestFramework_proofs` | the suite runner | `framework`, tlapm |
| `SpmScripts`, `SpmTest` | the IPC, SFN, mmiovec and client API tests as scripts; clients, services, SPM (external) | `spm_suites`, `spm_client_id` |
| `StorageScripts`, `ItsScripts`, `StorageTest`, `ItsTest` | vocabulary of storage tests; the ITS tests as scripts; a boot that runs them on a store (external); what the verdicts mean | `its_suites` |
| `MC*` | the constants of the runs | |

How state and actions correspond to the code:

- **Variables** carry the names of the code's variables where they have one
  (`test_ns_token_table`, `current_active_token`, `connect_cnt`,
  `flih_timer_triggered`, `failed_tests`).  A variable marked *external* belongs
  to RTX, the secure firmware, the hardware or the storage service; one marked
  *history* is never read by the program.
- **Actions** are whole functions where nothing can come between their steps
  (the shim runs in RTX's handlers; the spin lock disables interrupts), and the
  stretches between two points where another actor can run otherwise (`pc` in
  `MultiCoreTest` and `IrqTest`).
- **Kernel calls.**  An operator of `OsWrapper` takes the kernel object and gives
  what the wrapper returns and the object it leaves; `Blocked` stands for a call
  that has not returned.  The action of the caller decides what to do with
  either, as the code does, mostly by ignoring the status.
- **Hanging.**  A loop for good is a place its caller does not leave: `halt` of
  main, `failed` of a thread in `osRtxErrorNotify` (`RTX_Config.c:62`), `aborted`
  of the IPC service.  `osRtxErrorNotify` is called with interrupts enabled, so
  the other threads go on.
- **WFI.**  The comparison of the counter and `__WFI()` are two steps.  An
  interrupt between them is handled before the thread sleeps, which is then woken
  by the next one, of the timer or of anything else.
- **Builds.**  Where the preprocessor chooses, the choice is part of the initial
  state: `ns_lock` or `mq` is `NULL` in `NsMailbox`; `build` in `NsApp` has the
  compiler and the way to the secure side.
- **eRPC.**  A message is a sequence of words, read in the order written; a
  buffer holds `BufferSize` of them.  One call is outstanding at a time.  The
  wire may lose or damage a message, not duplicate or reorder it (a serial line
  or a TCP connection).  A codec in error reads counts and lengths as 0, as
  eRPC's does, and the server's loop ends at the first error of a receive, a
  shim or a send, after which `test_app` spins.  Going through a NULL array of
  elements is undefined: the server is then in the state `undefined` for good.
  0xFFFFFFFF is written -1.
- **Scripts.**  The sequential tests of the SPM and ITS suites are sequences of
  steps, one per call to the service, with the argument classes the service can
  tell apart, the status the test accepts and what it compares.  An interpreter
  runs them, so every early return is the end of the test with the code's
  verdict.  A buffer is the tag of its contents and whether what is compared of
  it is right; a byte-wise comparison is equality of tags, lengths and offsets.
- The storage suites run the secure tests before the non-secure ones, as
  `tfm_secure_client_service` and the non-secure application do.  The store
  keeps assets per client, so the two worlds share nothing but the device.

## 3. The runs

| Run | Shows |
|---|---|
| `tz_context` | Threads created, switched and exited in every order, with table and thread IDs running out: identity, table and reference count are right; the manager implements a map (`MapSpec`). |
| `mailbox` | Three tasks over two slots, in both builds: no reply goes astray or is slept through, every call returns, and the mailbox implements `ClientCall`. |
| `multi_core_suite` | The three tests with any client call failing: children end before the parent's frame, report and verdict are exact, the suite always ends. |
| `irq_tests` | The FLIH and SLIH cases in any order with an interrupt at every point, between a comparison and its `WFI` too: clean between tests, enough runs, no race, every test ends. |
| `framework` | Tests write the shared result in any way: the verdict of the run and the number of failed tests agree with what the tests did. |
| `spm_suites` | The IPC or SFN suites of both worlds interleaved on a working SPM that may refuse connections: verdicts are exact, only failed tests leave connections, the suites end.  Each of seven defects of the SPM, wrong input vectors among them, makes a test fail. |
| `spm_client_id` (violation) | NS_IPC 1016 "Testing Client-Id Translation" passes with an SPM that does not translate: `psa_get` overwrites the status the handler starts with. |
| `its_suites` | The ITS suites, reset at any call and run again: no false alarm, a call that the device fails or a connection that Secure Client 2 refuses is seen by the test (except in the one get of 001 whose status is not looked at), each of eighteen defects is found (but one on a device that is not wiped, as the test itself prints). |
| `erpc` | Calls with failures of the heap, the codec, either transport and the wire at any point: no array is overrun, no block stays allocated, connections are lost only to failures, the server stops only after one, a call returns unless a message is lost or the server gone, and the client API implements `RemoteCall`. |
| `log` | Two threads print at once: every message comes out whole and in order, numbers are exact, INT32_MIN, UINT32_MAX and pointers included. |
| `ns_app` | Twelve builds from reset to four storage tests: memory suffices, main halts only after a failure it checks and a thread only for want of a library space, task threads stay within their helper, library spaces are private unless a claim is raced, the library's mutex excludes. |
| `ns_app_libspace` (violation) | "Provide libspace for current thread" (`rtx_lib.c:745`): of two threads that are preempted between test and claim of an entry, both are given its space. |

### Bounds

| Constant | Value | Why it is enough |
|---|---|---|
| `THREAD_NUM_MAX`, `NSID_MGR_THREAD_ID_MAX` | 2 entries, 5 as ID limit | three threads overfill the table; four IDs run out after two exits and a slot is used again |
| `Thread` | 3 | one running, one chosen, one dormant or refused |
| `Task`, slots | 3 tasks, 2 slots | one task waits for the semaphore, two replies share an interrupt |
| `MaxTx` | 6 | caps the calls; every task makes a second call after slots were reused, and finds the message queue full |
| children | `2 * NUM_MAILBOX_QUEUE_SLOT` as in the code, of which the RTOS has memory for 2 | both outcomes of the creation loop, two children that compete for the mutex |
| `LightRounds`, `HeavyRounds`, `OooFactor` | 1, 1, 2 (code: 0x200, 0x20, 20) | rounds are independent; the out-of-order test still repeats |
| `Enough` | 10, the code's value | the counter saturates one above it, since the code only compares |
| suites, tests | 2 suites of up to 2 tests (empty ones included) | an earlier failure in the same and in another suite |
| `MaxHandles`, `MaxBusy` | 3 connections, 2 refusals (none with a broken SPM) | one per client; two early returns in a run |
| `MaxBoots`, `MaxFaults` | 2 boots, 1 failed call or refused connection | the second boot meets whatever the first left; a broken service is not combined with a failing device |
| `PSA_MAX_IOVEC`, `MaxVecs`, `Lengths` | 2 vectors (code: 4) of up to 3 offered each way, lengths 0 and 2 | the limit is exceeded by one direction and by both; an allocation of 0 bytes is special in the code |
| `BufferSize` | 10 words | the request with two long vectors does not fit, every other does |
| `MaxCalls`, `MaxFaults`, `MaxHandle` | 3, 2, 2 | connect, call, close with two failures, at any two points |
| `PRINT_BUFF_SIZE`, `NUM_BUFF_SIZE` | 4 (code: 32), 12 as in the code | messages shorter than the buffer, filling it exactly, and of several buffers |
| `Messages`, `Item`, `Char` | 32 formats and what they are made of | every tag with the numbers at the ends of their range, an unsupported tag, a `%` at the end |
| `ThreadId`, `MaxTasks` | 5 control blocks, 4 tasks | one thread more than the four library spaces; enough lingering threads to use up `os_mem` in the largest build |
| RTX configuration | the values of `RTX_Config.h` | memory is counted in bytes |
| `ITS_MAX_ASSET_SIZE` | 512 | the value of `config_test_psa_api.h`; the tests use it only relative to itself |

`CHECK_DEADLOCK FALSE` is given where the modelled program ends: the framework
returns, the suites end, the eRPC client has made its calls or waits for a server
that is gone.

### Fairness

- `mailbox`: weak fairness of each task's steps, of the task that sends again, of
  the mailbox thread (RTX runs with `OS_ROBIN_ENABLE 1`, and the threads have one
  priority: `mailbox_thread_attr` leaves it at its default), of the secure core's
  answer and of the interrupt; the semaphore is first in, first out.  A sender
  that finds the queue full has no place in it: nothing keeps others from
  overtaking it forever, so `CallReturns` only promises that it gets in or that
  other calls keep returning.
- `multi_core_suite`: strong fairness of each thread, because RTX hands a released
  mutex to a waiter.
- `erpc`: weak fairness of the client's and of the server's steps; none of the
  losses, and none of new calls.
- `irq_tests`: the thread is scheduled, the timer fires again while it runs, an
  enabled interrupt is taken.  Without the second a test may sleep forever: after
  the interrupt that brings the counter to its limit, if it came between the
  comparison and the `WFI`.  Nothing is assumed of other interrupts.
- `spm_suites`: each client and the service partition are scheduled by the SPM.

## 4. What is proved

Every theorem holds for all values of the constants that satisfy the named
assumptions of the modules (`ASSUME`), which TLC evaluates in the runs.  Each
component has one inductive invariant, a conjunction of named parts, and one
lemma per action that says the action keeps it; the properties follow from it.

**TZ shim** (`TzContext_proofs`).  Any number of threads, table entries and
thread IDs.  `RunningIdentity` is not inductive: that
the LOAD for a thread finds *its* NSID rests on the table.  The invariant adds
that entries and live threads correspond one to one, that tokens in use lie
below the next thread ID and so are never given out twice, that before a
successful initialisation nothing has happened, and how the secure side's state
depends on the point RTX's handler is at.  The lemmas about the NSID manager
say what add and remove do to the table: the loops of the code are functions
with the first matching index, found by a least-element argument.

`LeakOnlyWhenTableFull` is an action property: in every step the references and
the live threads change alike, except when `TZ_AllocModuleContext_S` finds no
free entry.  `ShimImplementsMap` is the step simulation of `NsidMap`: an
allocation binds a token that was never bound (it is the next thread ID), one
that fails after taking the ID wastes it, a free drops it, and every other step
of RTX or the secure side stutters.  That there is room in the map whenever the
table has a free entry is `RoomInMap`: the map has at most one pair per entry in
use, and these are not all.

**Mailbox** (`NsMailbox_proofs`).  Any number of tasks and slots, both builds.
`MInv` says which thread has which slot at each place of its call, that a slot
in use has exactly one thread, that a flag is set exactly between interrupt and
end of the wait, that an unhandled reply has its interrupt pending, and, for the
two builds, the account of the semaphore (tokens plus holders are the slots, the
waiters are the tasks that wait, once each) and of the message queue (a task
that waits without a slot has its request there or with the mailbox thread,
once).  `SlotForLockHolder` then counts: a holder about to take a slot has none,
so fewer tasks than slots have one.  `MailboxImplementsCall` is the step
simulation of `ClientCall`: whatever the interleaving, a call is transmitted
and counted once and returns after it was served.

**Multi-core suite** (`MultiCoreTest_proofs`).  Any number of slots, children and
rounds, and any number of threads the RTOS can create.  `SInv` ties each child's
parameters to its place, the parent's polling index to the children that have
completed, the mutex to its holder, `fault` to the thread that has learnt of the
failure or will, and each heavy loop's asset to its position.  `StatsExactAtReport`
equates a counter with a sum over the children: the invariant has the
cardinality of the set of all transmissions, and `TotalIsCount` shows that the
sum over the collected results is that cardinality.

**eRPC** (`Erpc_proofs`).  Any numbers of connections, vectors and calls, any
vector lengths, every combination of failures.  `EInv` says that there is one
message at a time, that it belongs to the call in progress, and that its place
tells whether the call was executed.  The size of a message is a sum defined by
recursion; what the proofs need of it (it is a natural number, and monotone in
its terms) is shown with the least-number principle.  From it follows the crux
of `StopsOnlyOnFault`: a reply fits the buffer if its request did.  The
assumption `BufferSize >= 3` is the header and the result of a reply, which
the 3072 bytes of `ERPC_DEFAULT_BUFFER_SIZE` (`erpc_config.h`) far exceed.  `ErpcImplementsRemoteCall`
is the refinement of `RemoteCall`.

**Application on RTX** (`NsApp_proofs`).  Every build, any number of task threads
one after the other, any number of mailbox slots and of addresses for control
blocks, of which there have to be five (a test thread, a mailbox thread and three
tasks fill `os_mem`).  `NInv` accounts for `os_mem` byte by byte: what is in use
is the sum of the blocks of the objects that exist, computed from `RTX_Config.h`
and the control block sizes.  It says which entries of `os_libspace_id` a
searching thread has passed, and that claimed entries come first and are of
different threads even after a race, and that a thread that hangs in
`osRtxErrorNotify` has found all of them so and they stay so; and it ties the
semaphore's count and waiter to the task that has still to release it.  `MemorySuffices` and
`HaltExplained` are proved for up to eleven mailbox slots, a hypothesis of these
two theorems, since the number comes from TF-M's configuration, outside this
repository.  For
`MemorySuffices` eleven is the limit: with twelve TLC finds two lingering tasks
that leave too little memory for a third.

**Log** (`Log_proofs`).  Any number of threads, any messages, any size of the
output buffer, and any `NUM_BUFF_SIZE` of at least ten, the digits of
UINT32_MAX (`BufferAssumption`); every tag comes with an argument of its type
(`MessageAssumption`), which the varargs of C leave to the caller.
`NumbersExact` is about what a loop computes.  `left[k]`, what is left of the
number after k divisions, and the value that digits denote are recursions over
an interval, so the proof first shows that such a recursion defines a function
(`RecursionExists`) and that two that go alike are equal (`Agreement`), both
with the least-number principle.  Then: a division and its remainder give the
number back, on halves of 16 bits as on the whole (`DivisionExact`); it takes a
digit off the high half, then off the low one, and after ten divisions nothing is
left, in either base (`DivisionShrinks`, `TenDivisions`); so the loop ends with at most ten digits,
the first of them not 0 unless it is the only one; and reading the digits back
undoes the divisions one after the other (`NumBuffExact`).
`MessageKept` is its own invariant, next to the types.  Its crux is
`ShareOfOutput`: characters a thread sends are appended to its own share of the
output and leave the others' alone.  Every action then is an instance of
`Moves`: what is printed, buffered and to come is joined in the same order
before and after.

**Test framework** (`TestFramework_proofs`).  Any number of suites and tests.
The invariant relates the loop indices, the verdict table and the suite table:
suites behind the index have their final verdict, the current suite's verdict is
the disjunction of its tests so far, suites ahead have none.  The count of
failed tests uses the cardinality theorems for one test more.

**IRQ services** (`IrqTest_proofs`).  Any number of interrupts asked for.  The
invariant ties interrupt, timer and mask to the place of the thread, the counter
to the history of handler runs, and says where the signal may be asserted.  The
crux is `HandlerCounts`: the counter equals `Enough` after at most one run of
the handler, so an interrupt between `psa_reset_signal` and `psa_irq_disable`
cannot assert the signal again.

Some theorems state properties that no run checks any more, since the proof says
more than a run: type correctness, `ActiveTokenMirrorsNsce`,
`NoContextWithoutInit`, `SuiteVerdictExact`, `NoForeignPlace`, `NoPanic`.

Only model-checked:

- all liveness (`CallReturns`, `SuiteFinishes`, `TestEnds`, `SuitesEnd`), which
  is out of the prover's reach, and with it the fairness part of `CallSpec`;
- the SPM and ITS suites (`SpmTest`, `ItsTest`): their properties are about
  particular scripts, which TLC runs in full.

## 5. Observations without a run

- `TZ_FreeModuleContext_S` removes the table entry before it releases the
  context; the order cannot be observed, as both happen in one SVC.
- `!params->child_idx % 2` (`multi_core_ns_interface_testsuite.c:370`) is true
  for child 0 only.
- `attest_token_decode_common.c:325` joins the two halves of a range check with
  `||`, so it is always true.
- ITS test 001 does not look at the status of its get and judges it by a length
  that was never initialised (`its_tests_common.c:60`); whether it passes when the
  get fails depends on the stack, so no property judges it, and `FaultsSeen` excepts
  that step.
- Only the verdict of `test_result_t` is reset between tests: a test that sets
  `TEST_FAILED` without `TEST_FAIL` is reported at the place of an earlier failure
  of the suite (`test_framework.c:171`).
- As in NS_IPC 1016, `psa_get` overwrites the status that
  `ipc_service_rhandle_check` starts with, so a disconnection with wrong private
  data is answered with success.
- The value `tfm_log_printf` returns counts the characters of the last flush twice
  (`tfm_log_raw.c:154`), although `tfm_log_raw.h:21` promises the "Number of chars
  printed"; the model counts as the code does, and no caller uses the value.
- In the worst build `os_mem` has room for three storage-test threads; a fourth
  test fails for want of memory if the threads before it, done, have not run to
  their exit.
- The eRPC client waits without a timeout, and the server does not come back after
  an error: one lost or damaged message ends the session.
- The transmission statistics are read and added in two critical sections, so the
  average of used slots is that of slightly earlier moments; it stays within 0 and
  the number of slots.
- A write-once asset written by broken firmware stays until the storage is
  wiped, so `NoFalseAlarm` is about devices that have only seen sound firmware.

## 6. Not modelled, and the plan

Left out for good:

- the RTX kernel (a binary library here), its event recorder (`rtx_evr.h`, not in
  the build with `OS_EVR_INIT 0`), the SVC table, and QCBOR and t_cose;
- `os_wrapper_delay` and `os_wrapper_get_tick`: no modelled behaviour depends on
  the time; `_mutex_free`: the library never frees its mutex in these programs;
- the eRPC library itself, the default case of `handleInvocation` (client and
  server are generated from one interface) and the pre- and post-action hooks,
  which the configuration does not define;
- build configuration of the PSA architecture tests, register writes of the
  platform and co-processor start-up, cryptographic and CBOR values, log colours
  and wording, the isolation tests that end in a deliberate memory fault.

The plan goes on, in this order:

1. **PS suites** as scripts over `StorageScripts` and `StorageTest`, and in a
   module of its own the test NV counters and rollback protection: counters
   incremented, reset or failing between any two steps of a set, an old object
   table never accepted.
2. **FWU suite**: scripts over the component state machine (ready, writing,
   candidate, staged, trial), with resets between calls.
3. **NSID suite**: its SVC calls on the secure context of `TzContext`; a thread
   switch between any two of them.
4. **Crypto suites**: lifetimes of keys and operations (policy, persistent keys
   across a reset, abort after a failed update); Secure Client 2's key access.
5. **Attestation and boot-loader tests** as far as they keep state.
6. **Proofs**: `LeakOnlyByFailure` of the SPM suites for any script in which every
   connection that is opened is closed; `FaultsSeen` of the ITS suites for any
   script that accepts no device failure.
