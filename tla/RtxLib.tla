------------------------------- MODULE RtxLib -------------------------------
(***************************************************************************)
(* The C library interface of RTX (rtx_lib.c, last part, compiled with Arm *)
(* Compiler and its standard library): the library asks for the space of   *)
(* the current thread with __user_perthread_libspace and protects its own  *)
(* data with _mutex_initialize, _acquire, _release and _free.              *)
(*                                                                         *)
(* A caller is a thread or main itself, before the kernel runs.  Every     *)
(* read and write of the shared array os_libspace_id is a step of its own, *)
(* since a thread can be preempted there.  The library is external: a call *)
(* of it asks for the space and, holding it, may enter one critical        *)
(* section.                                                                *)
(***************************************************************************)
EXTENDS OsWrapper, RtxConfig, FiniteSets

CONSTANTS
    ThreadId,       \* the addresses a thread's control block can have
    Main            \* the caller before the kernel runs

ASSUME ThreadIdAssumption == ThreadId \subseteq Nat /\ IsFiniteSet(ThreadId) /\ Main \in Int \ ThreadId

VARIABLES
    kernel,             \* external: osKernelGetState
    os_kernel_active,
    os_libspace_id,
    lib,                \* per caller [pc, n, space]
    clib_mutex,         \* the library's mutex
    raced               \* history: a claim overwrote another thread's

libVars == <<os_kernel_active, os_libspace_id, lib, clib_mutex, raced>>

Caller == ThreadId \cup {Main}
LibSpace == 0 .. OS_THREAD_LIBSPACE_NUM
NoSpace == -1
NoId == Main            \* a NULL entry: main has no thread identifier

osKernelInactive == 0
osKernelReady == 1
osKernelRunning == 2

OutOfLib == [pc |-> "out", n |-> 0, space |-> NoSpace]

LibInit ==
    /\ os_kernel_active = 0
    /\ os_libspace_id = [n \in 0 .. OS_THREAD_LIBSPACE_NUM - 1 |-> NoId]
    /\ lib = [c \in Caller |-> OutOfLib]
    /\ clib_mutex = NULL
    /\ raced = FALSE

LibGoto(c, label) == lib' = [lib EXCEPT ![c].pc = label]

\* osRtxErrorNotify never returns to its caller, which loops in it for good;
\* interrupts stay enabled, and the other threads go on.
osRtxErrorNotify(c) == LibGoto(c, "failed")

-----------------------------------------------------------------------------
\* Mutant of os_kernel_is_active: running does not count as started.
Mut_ActiveLate == os_kernel_active = 1 \/ kernel > osKernelRunning

\* os_kernel_is_active, whose static flag latches.
os_kernel_is_active == os_kernel_active = 1 \/ kernel > osKernelReady

Latch == os_kernel_active' = IF os_kernel_is_active THEN 1 ELSE 0

\* __user_perthread_libspace is called: before the kernel runs it returns the
\* space after the threads' ones.
libspace_enter(c) ==
    /\ lib[c].pc = "out"
    /\ Latch
    /\ IF os_kernel_is_active
       THEN LibGoto(c, "test")
       ELSE lib' = [lib EXCEPT ![c].pc = "using", ![c].space = OS_THREAD_LIBSPACE_NUM]
    /\ UNCHANGED <<os_libspace_id, clib_mutex, raced>>

\* Mutant of libspace_test: the loop ends before the last entry.
Mut_LastUnused(c) ==
    /\ lib[c].pc = "test"
    /\ IF lib[c].n = OS_THREAD_LIBSPACE_NUM - 1
       THEN osRtxErrorNotify(c)
       ELSE LibGoto(c, IF os_libspace_id[lib[c].n] = NoId THEN "claim" ELSE "compare")
    /\ UNCHANGED <<os_kernel_active, os_libspace_id, clib_mutex, raced>>

\* The loop's condition, then the test for a free entry.
libspace_test(c) ==
    /\ lib[c].pc = "test"
    /\ IF lib[c].n = OS_THREAD_LIBSPACE_NUM
       THEN osRtxErrorNotify(c)
       ELSE LibGoto(c, IF os_libspace_id[lib[c].n] = NoId THEN "claim" ELSE "compare")
    /\ UNCHANGED <<os_kernel_active, os_libspace_id, clib_mutex, raced>>

\* Mutant of libspace_claim: the entry is used and not marked.
Mut_NotMarked(c) ==
    /\ lib[c].pc = "claim"
    /\ lib' = [lib EXCEPT ![c].pc = "using", ![c].space = lib[c].n]
    /\ UNCHANGED <<os_kernel_active, os_libspace_id, clib_mutex, raced>>

\* The free entry is written, whatever it holds by now.
libspace_claim(c) ==
    /\ lib[c].pc = "claim"
    /\ os_libspace_id' = [os_libspace_id EXCEPT ![lib[c].n] = c]
    /\ raced' = (raced \/ os_libspace_id[lib[c].n] # NoId)
    /\ LibGoto(c, "compare")
    /\ UNCHANGED <<os_kernel_active, clib_mutex>>

\* The thread's own entry ends the search.
libspace_compare(c) ==
    /\ lib[c].pc = "compare"
    /\ lib' = IF os_libspace_id[lib[c].n] = c
              THEN [lib EXCEPT ![c].pc = "using", ![c].space = lib[c].n]
              ELSE [lib EXCEPT ![c].pc = "test", ![c].n = @ + 1]
    /\ UNCHANGED <<os_kernel_active, os_libspace_id, clib_mutex, raced>>

\* The library's call is over, without a critical section.
lib_return(c) ==
    /\ lib[c].pc = "using"
    /\ lib' = [lib EXCEPT ![c] = OutOfLib]
    /\ UNCHANGED <<os_kernel_active, os_libspace_id, clib_mutex, raced>>

-----------------------------------------------------------------------------
\* _mutex_initialize, which main's start-up calls; memory says whether the
\* kernel can create a mutex.
_mutex_initialize(memory) ==
    /\ IF memory THEN clib_mutex' = osMutexNew /\ UNCHANGED lib
       ELSE clib_mutex' = NULL /\ osRtxErrorNotify(Main)
    /\ UNCHANGED <<os_kernel_active, os_libspace_id, raced>>

\* _mutex_acquire does nothing before the kernel runs; the status of the
\* kernel's call, once it returns, is dropped.
_mutex_acquire(c) ==
    /\ lib[c].pc = "using"
    /\ Latch
    /\ LibGoto(c, "inside")
    /\ IF os_kernel_is_active
       THEN LET r == osMutexAcquire(clib_mutex, c, osWaitForever)
            IN  r.status # Blocked /\ clib_mutex' = r.obj
       ELSE UNCHANGED clib_mutex
    /\ UNCHANGED <<os_libspace_id, raced>>

\* _mutex_release, at the end of the library's call.
_mutex_release(c) ==
    /\ lib[c].pc = "inside"
    /\ Latch
    /\ lib' = [lib EXCEPT ![c] = OutOfLib]
    /\ clib_mutex' = IF os_kernel_is_active THEN osMutexRelease(clib_mutex, c).obj ELSE clib_mutex
    /\ UNCHANGED <<os_libspace_id, raced>>

\* The steps of a library call after its start.
LibStep(c) ==
    \/ libspace_test(c) \/ libspace_claim(c) \/ libspace_compare(c)
    \/ _mutex_acquire(c) \/ _mutex_release(c) \/ lib_return(c)

-----------------------------------------------------------------------------
(* Properties. *)

InLib == {c \in Caller : lib[c].pc \in {"using", "inside"}}

\* __user_perthread_libspace provides a space for the current thread: no two
\* callers in the library have the same.
LibspaceForThread == \A c, d \in InLib : lib[c].space = lib[d].space => c = d

\* Callers in the library at the same time have different spaces, main
\* included, as long as no thread was preempted between its test of an entry
\* and its claim by one that claimed the same entry.
LibspacePrivate == ~raced => LibspaceForThread

\* The library's critical section has one thread at a time, once the kernel
\* runs, and the mutex is with that thread: none waits for one that has left.
ClibMutexExclusive ==
    kernel = osKernelRunning /\ clib_mutex # NULL =>
        clib_mutex.owner = {c \in Caller : lib[c].pc = "inside"}
=============================================================================
