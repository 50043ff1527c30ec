--------------------------- MODULE MultiCoreTest ---------------------------
(***************************************************************************)
(* The multi-core test suite (tests_reg/test/secure_fw/suites/multi_core/  *)
(* non_secure/multi_core_ns_interface_testsuite.c) over PSA client calls   *)
(* as ClientCall promises and NsMailboxClients implements them.  The       *)
(* test thread creates up to NR_MULTI_CALL_CHILD children, starts them     *)
(* with a thread flag, makes client calls itself, polls the children's     *)
(* is_complete under a mutex, deletes the mutex and reports.  The children *)
(* reach their parameters, and through them the mutex, on the parent's     *)
(* stack.                                                                  *)
(*                                                                         *)
(* Kept: every synchronisation step and every early return.  Abstracted:   *)
(* ticks, log output and the value of a reply (a call succeeds or not; the *)
(* storage calls of the heavy loop act on a store of UIDs).  The return of *)
(* a child from its runner touches nothing shared and is part of its last  *)
(* mutex release.                                                          *)
(***************************************************************************)
EXTENDS ClientCall, OsWrapper

CONSTANTS
    RtosThreads,    \* bound: the children that the RTOS has memory for
    LightRounds,    \* MAX_NR_LIGHT_TEST_ROUND, 0x200 in the code
    HeavyRounds,    \* MAX_NR_HEAVY_TEST_ROUND, 0x20 in the code
    OooFactor       \* 20 in the code

NR_MULTI_CALL_CHILD == IF NUM_MAILBOX_QUEUE_SLOT > 1 THEN NUM_MAILBOX_QUEUE_SLOT * 2 ELSE 0

ASSUME SlotAssumption == NUM_MAILBOX_QUEUE_SLOT \in Nat \ {0}
ASSUME TestTaskAssumption == Task = 0 .. NR_MULTI_CALL_CHILD
ASSUME RoundsAssumption == {LightRounds, HeavyRounds, OooFactor} \subseteq Nat \ {0}
ASSUME RtosThreadsAssumption == RtosThreads \in 0 .. NR_MULTI_CALL_CHILD

Child == 0 .. NR_MULTI_CALL_CHILD - 1
Parent == NR_MULTI_CALL_CHILD
Tests == <<"light", "heavy", "ooo">>

VARIABLES
    test,           \* which of Tests runs
    pc,             \* where each thread is
    idx,            \* the parent's loop index
    nr_child,
    thread_flags,   \* the thread flags of each child
    params,         \* per thread [child_idx, left, calls, ret, is_complete]
    mutex,          \* the mutex that protects is_complete
    its,            \* external: the UIDs stored by the ITS service
    reply,          \* external: whether each thread's last call succeeded
    fault,          \* a call failed that the service should have served
    result          \* the verdict of each test

testVars == <<test, pc, idx, nr_child, thread_flags, params, mutex, its, reply, fault, result>>
vars == <<callVars, testVars>>

UNDEF == "undef"
NewParams == [child_idx |-> 0, left |-> 0, calls |-> 0, ret |-> UNDEF, is_complete |-> FALSE]

\* nr_calls as the loops leave it, and so the calls a thread makes.
LightCalls(rounds) == rounds
HeavyCalls(rounds) == rounds * 3

\* The runners' choice of loop.  The mixed test's condition is
\* "!params->child_idx % 2", which C reads as (!child_idx) % 2: index 0 only.
IsHeavy(child_idx) ==
    \/ Tests[test] = "heavy"
    \/ Tests[test] = "ooo" /\ (IF child_idx = 0 THEN 1 ELSE 0) % 2 = 1

NrCalls(child_idx) ==
    IF IsHeavy(child_idx) THEN HeavyCalls(HeavyRounds)
    ELSE IF Tests[test] = "ooo" THEN LightCalls(HeavyRounds * OooFactor)
    ELSE LightCalls(LightRounds)

\* Bit x of the child's thread flags.
TEST_CHILD_EVENT_FLAG(x) == {x}

At(t, label) == pc[t] = label
GotoT(t, label) == pc' = [pc EXCEPT ![t] = label]

-----------------------------------------------------------------------------
(* The parent: multi_client_call_test. *)

\* Mutant of stats_reinit: the statistics are not reset.
Mut_KeepStats == UNCHANGED callVars

\* tfm_ns_mailbox_tx_stats_reinit
stats_reinit == ResetStats

\* Statistics reset, then the thread's priority and the mutex; the test fails if
\* it cannot have one of them.
test_start ==
    /\ At(Parent, "start")
    /\ stats_reinit
    /\ fault' = FALSE
    /\ \E prio \in {osPriorityNormal, osPriorityError}, memory \in BOOLEAN :
          IF os_wrapper_thread_get_priority(prio).ret # OS_WRAPPER_ERROR /\ memory
          THEN mutex' = os_wrapper_mutex_create /\ GotoT(Parent, "create") /\ UNCHANGED result
          ELSE /\ mutex' = NULL
               /\ GotoT(Parent, "next")
               /\ result' = [result EXCEPT ![test] = "FAILED"]
    /\ idx' = 0 /\ nr_child' = 0
    /\ params' = [t \in Task |-> NewParams]
    /\ UNCHANGED <<test, thread_flags, its, reply>>

NrCreated == idx

\* One round of the creation loop; it stops at the first thread that the RTOS
\* cannot create.
create_child ==
    /\ At(Parent, "create")
    /\ \/ /\ idx < RtosThreads
          /\ pc' = [pc EXCEPT ![idx] = "wait_flag"]
          /\ params' = [params EXCEPT ![idx] =
                [NewParams EXCEPT !.child_idx = idx, !.left = NrCalls(idx)]]
          /\ idx' = idx + 1
          /\ UNCHANGED nr_child
       \/ /\ nr_child' = NrCreated /\ idx' = 0
          /\ GotoT(Parent, "signal")
          /\ UNCHANGED params
    /\ UNCHANGED <<callVars, test, thread_flags, mutex, its, reply, fault, result>>

\* Mutant of ParentIdx: the parent shares the first child's index.
Mut_ParentIdxZero == 0

\* parent_params.child_idx
ParentIdx == nr_child

\* Mutant of MoreToSignal: the last child is not told.
Mut_LastNotSignalled == idx + 1 < nr_child

MoreToSignal == idx < nr_child

\* One os_wrapper_thread_set_flag per child, then the parent's own test.
signal_children ==
    /\ At(Parent, "signal")
    /\ IF MoreToSignal
       THEN /\ thread_flags' =
                  [thread_flags EXCEPT ![idx] =
                      os_wrapper_thread_set_flag(@, TEST_CHILD_EVENT_FLAG(idx)).obj]
            /\ idx' = idx + 1
            /\ UNCHANGED <<pc, params>>
       ELSE /\ params' = [params EXCEPT ![Parent] =
                 [NewParams EXCEPT !.child_idx = ParentIdx, !.left = NrCalls(ParentIdx)]]
            /\ idx' = 0
            /\ GotoT(Parent, "run")
            /\ UNCHANGED thread_flags
    /\ UNCHANGED <<callVars, test, nr_child, mutex, its, reply, fault, result>>

-----------------------------------------------------------------------------
(* The runners, in the parent and in the children. *)

\* os_wrapper_thread_wait_flag(TEST_CHILD_EVENT_FLAG(child_idx), forever)
wait_start(c) ==
    /\ At(c, "wait_flag")
    /\ LET r == os_wrapper_thread_wait_flag(thread_flags[c], TEST_CHILD_EVENT_FLAG(params[c].child_idx),
                                            OS_WRAPPER_WAIT_FOREVER)
       IN  /\ r.ret # Blocked
           /\ thread_flags' = [thread_flags EXCEPT ![c] = r.obj]
    /\ GotoT(c, "run")
    /\ UNCHANGED <<callVars, test, idx, nr_child, params, mutex, its, reply, fault, result>>

AfterLoop(t) == IF t = Parent THEN "poll" ELSE "done_lock"

\* The loop starts its next client call.
loop_call(t) ==
    /\ At(t, "run")
    /\ Begin(t)
    /\ GotoT(t, "calling")
    /\ UNCHANGED <<test, idx, nr_child, thread_flags, params, mutex, its, reply, fault, result>>

\* The loop ends, as recorded in the thread's parameters.
loop_end(t, ret) ==
    /\ params' = [params EXCEPT ![t].left = 0, ![t].ret = ret,
                     ![t].calls = IF ret = "PASSED" THEN NrCalls(params[t].child_idx) ELSE @]
    /\ GotoT(t, AfterLoop(t))

loop_again(t) ==
    /\ params' = [params EXCEPT ![t].left = @ - 1]
    /\ GotoT(t, "run")

loop_next(t) ==
    IF ~reply[t] THEN loop_end(t, "FAILED")
    ELSE IF params[t].left > 1 THEN loop_again(t)
    ELSE loop_end(t, "PASSED")

\* The call returns: the loop fails at once, goes on, or is over.
loop_return(t) ==
    /\ At(t, "calling")
    /\ Return(t)
    /\ loop_next(t)
    /\ reply' = [reply EXCEPT ![t] = FALSE]
    /\ UNCHANGED <<test, idx, nr_child, thread_flags, mutex, its, fault, result>>

\* External: the secure side serves the request of t.  The heavy loop sets,
\* gets and removes the thread's own UID in turn; any call may fail.
serve(t) ==
    LET uid == params[t].child_idx
        step == <<"set", "get", "remove">>[((HeavyCalls(HeavyRounds) - params[t].left) % 3) + 1]
        heavy == IsHeavy(uid)
    IN  /\ Serve(t)
        /\ \/ /\ reply' = [reply EXCEPT ![t] = ~heavy \/ step = "set" \/ uid \in its]
              /\ its' = IF heavy /\ step = "set" THEN its \cup {uid}
                        ELSE IF heavy /\ step = "remove" THEN its \ {uid} ELSE its
              /\ UNCHANGED fault
           \/ /\ reply' = [reply EXCEPT ![t] = FALSE]
              /\ fault' = TRUE
              /\ UNCHANGED its
        /\ UNCHANGED <<test, pc, idx, nr_child, thread_flags, params, mutex, result>>

transmit(t) == Transmit(t) /\ UNCHANGED testVars

-----------------------------------------------------------------------------
(* Completion. *)

testRest == <<callVars, test, nr_child, thread_flags, its, reply, fault, result>>

done_lock(c) ==
    /\ At(c, "done_lock")
    /\ LET r == os_wrapper_mutex_acquire(mutex, c, OS_WRAPPER_WAIT_FOREVER)
       IN  r.ret # Blocked /\ mutex' = r.obj
    /\ GotoT(c, "done_set")
    /\ UNCHANGED <<testRest, idx, params>>

done_set(c) ==
    /\ At(c, "done_set")
    /\ params' = [params EXCEPT ![c].is_complete = TRUE]
    /\ GotoT(c, "done_release")
    /\ UNCHANGED <<testRest, idx, mutex>>

\* Mutant of ParentAcquire: the parent does not wait for the mutex.
Mut_ParentDoesNotLock == [ret |-> OS_WRAPPER_SUCCESS, obj |-> mutex]

ParentAcquire == os_wrapper_mutex_acquire(mutex, Parent, OS_WRAPPER_WAIT_FOREVER)

done_release(c) ==
    /\ At(c, "done_release")
    /\ mutex' = os_wrapper_mutex_release(mutex, c).obj
    /\ GotoT(c, "none")
    /\ UNCHANGED <<testRest, idx, params>>

\* wait_child_thread_completion: the parent takes the mutex, reads the flag of
\* child idx and releases the mutex, until the flag is set; then the next child.
poll_lock ==
    /\ At(Parent, "poll")
    /\ IF idx < nr_child
       THEN /\ ParentAcquire.ret # Blocked
            /\ mutex' = ParentAcquire.obj
            /\ GotoT(Parent, "poll_read")
       ELSE /\ GotoT(Parent, "delete")
            /\ UNCHANGED mutex
    /\ UNCHANGED <<testRest, idx, params>>

poll_read ==
    /\ At(Parent, "poll_read")
    /\ mutex' = os_wrapper_mutex_release(mutex, Parent).obj
    /\ idx' = IF params[idx].is_complete THEN idx + 1 ELSE idx
    /\ GotoT(Parent, "poll")
    /\ UNCHANGED <<testRest, params>>

delete_mutex ==
    /\ At(Parent, "delete")
    /\ mutex' = os_wrapper_mutex_delete(mutex).obj
    /\ GotoT(Parent, "collect")
    /\ UNCHANGED <<testRest, idx, params>>

Runners == {Parent} \cup 0 .. nr_child - 1

\* The verdict, in the order of the code: the parent's result, then each child's.
collect ==
    /\ At(Parent, "collect")
    /\ IF \A t \in Runners : params[t].ret = "PASSED"
       THEN GotoT(Parent, "avg") /\ UNCHANGED result
       ELSE /\ GotoT(Parent, "next")
            /\ result' = [result EXCEPT ![test] = "FAILED"]
    /\ UNCHANGED <<callVars, test, idx, nr_child, thread_flags, params, mutex, its, reply, fault>>

TotalCalls == LET calls[n \in 0 .. nr_child] ==
                    IF n = 0 THEN params[Parent].calls ELSE calls[n - 1] + params[n - 1].calls
              IN  calls[nr_child]

\* tfm_ns_mailbox_stats_avg_slot and the report: both divide.
report ==
    /\ At(Parent, "avg")
    /\ nr_tx # 0 /\ TotalCalls # 0
    /\ result' = [result EXCEPT ![test] = "PASSED"]
    /\ GotoT(Parent, "next")
    /\ UNCHANGED <<callVars, test, idx, nr_child, thread_flags, params, mutex, its, reply, fault>>

\* run_testsuite calls the next test; after the last one the suite is over.
next_test ==
    /\ At(Parent, "next")
    /\ IF test < Len(Tests)
       THEN test' = test + 1 /\ GotoT(Parent, "start")
       ELSE GotoT(Parent, "finished") /\ UNCHANGED test
    /\ UNCHANGED <<callVars, idx, nr_child, thread_flags, params, mutex, its, reply, fault, result>>

Finished == At(Parent, "finished") /\ UNCHANGED vars

-----------------------------------------------------------------------------
Init ==
    /\ CallInit
    /\ thread_flags = [c \in Child |-> {}]
    /\ test = 1
    /\ pc = [t \in Task |-> IF t = Parent THEN "start" ELSE "none"]
    /\ idx = 0 /\ nr_child = 0
    /\ params = [t \in Task |-> NewParams]
    /\ mutex = NULL
    /\ its = {}
    /\ reply = [t \in Task |-> FALSE]
    /\ fault = FALSE
    /\ result = [k \in 1 .. Len(Tests) |-> "none"]

ThreadStep(t) ==
    \/ loop_call(t) \/ loop_return(t)
    \/ t \in Child /\ (wait_start(t) \/ done_lock(t) \/ done_set(t) \/ done_release(t))
    \/ /\ t = Parent
       /\ \/ test_start \/ create_child \/ signal_children \/ poll_lock \/ poll_read
          \/ delete_mutex \/ collect \/ report \/ next_test

Next ==
    \/ \E t \in Task : ThreadStep(t)
    \/ \E t \in Task : transmit(t) \/ serve(t)
    \/ Finished

Spec == Init /\ [][Next]_vars

\* RTX schedules the equal-priority threads round robin (OS_ROBIN_ENABLE 1) and
\* hands a mutex to the thread that waits for it, so the parent's polling
\* cannot keep a child from it; client calls are fair as in CallSpec.  At each
\* point of a thread one step is possible, its own or one of its call.
FairSpec ==
    /\ Spec
    /\ \A t \in Task : SF_vars(ThreadStep(t) \/ transmit(t) \/ serve(t))

-----------------------------------------------------------------------------
(* Properties. *)

\* Children reach their parameters and the mutex only while the parent is still
\* in the call that owns them: none runs once the mutex is deleted, the results
\* are being collected or the parent has returned.
ChildrenWithinParent ==
    (\E c \in Child : pc[c] # "none") =>
        pc[Parent] \in {"create", "signal", "run", "calling", "poll", "poll_read"}

\* When the averages are computed the statistics count exactly the calls of this
\* test, and there are some: neither tfm_ns_mailbox_stats_avg_slot nor the
\* report divides by zero.
StatsExactAtReport == At(Parent, "avg") => nr_tx = TotalCalls /\ nr_tx > 0

\* A test that has run its loops passes if and only if no call failed: the
\* threads' storage assets do not clash.
VerdictExact ==
    At(Parent, "next") /\ params[Parent].ret # UNDEF =>
        (result[test] = "PASSED" <=> ~fault)

\* The suite comes to its end: no call, no child and no poll waits forever.
SuiteFinishes == <>At(Parent, "finished")
=============================================================================
