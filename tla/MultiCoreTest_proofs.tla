------------------------ MODULE MultiCoreTest_proofs ------------------------
(***************************************************************************)
(* Proofs about the multi-core test suite, for any number of slots,        *)
(* children and rounds: no child outlives the call that owns its           *)
(* parameters, the statistics count exactly the calls of the test, and the *)
(* verdict is right.                                                       *)
(***************************************************************************)
EXTENDS MultiCoreTest, WellFoundedInduction, FiniteSetTheorems, TLAPS

-----------------------------------------------------------------------------
(* Natural numbers. *)

(***************************************************************************)
(* The least-number principle, for a set of natural numbers.               *)
(***************************************************************************)
LEMMA LeastNumber ==
    ASSUME NEW S, S \subseteq Nat, S # {}
    PROVE  \E i \in S : \A j \in S : i <= j
<1>. DEFINE Less == {ss \in Nat \X Nat : ss[1] < ss[2]}
<1>1. IsWellFoundedOn(Less, Nat)
  BY NatLessThanWellFounded DEF OpToRel
<1>2. \E i \in S : \A j \in S : <<j, i>> \notin Less
  <2>. HIDE DEF Less
  <2>. QED BY <1>1, WFMin
<1>3. PICK i \in S : \A j \in S : <<j, i>> \notin Less
  BY <1>2
<1>4. ASSUME NEW j \in S PROVE i <= j
  <2>1. i \in Nat /\ j \in Nat
    OBVIOUS
  <2>2. ~(j < i)
    BY <1>3, <2>1
  <2>. QED
    BY <2>1, <2>2
<1>. QED
  BY <1>4

-----------------------------------------------------------------------------
(* The inductive invariant. *)

ChildLabel == {"none", "wait_flag", "run", "calling", "done_lock", "done_set", "done_release"}
ParentLabel ==
    {"start", "create", "signal", "run", "calling", "poll", "poll_read", "delete", "collect",
     "avg", "next", "finished"}

Params ==
    [child_idx : 0 .. NR_MULTI_CALL_CHILD, left : Nat, calls : Nat,
     ret : {UNDEF, "PASSED", "FAILED"}, is_complete : BOOLEAN]
Mutex == [owner : SUBSET Task]

SuiteTypeOK ==
    /\ call \in [Task -> {"idle", "called", "sent", "served"}]
    /\ nr_tx \in Nat
    /\ test \in 1 .. 3
    /\ pc \in [Task -> ChildLabel \cup ParentLabel]
    /\ pc[Parent] \in ParentLabel
    /\ \A c \in Child : pc[c] \in ChildLabel
    /\ idx \in 0 .. RtosThreads
    /\ nr_child \in 0 .. RtosThreads
    /\ params \in [Task -> Params]
    /\ mutex \in Mutex \cup {NULL}
    /\ its \subseteq 0 .. NR_MULTI_CALL_CHILD
    /\ reply \in [Task -> BOOLEAN]
    /\ fault \in BOOLEAN
    /\ result \in [1 .. 3 -> {"none", "PASSED", "FAILED"}]

\* The parent is in the part of the test in which its children may run, and in
\* the part in which the mutex exists.
Owning == pc[Parent] \in {"create", "signal", "run", "calling", "poll", "poll_read"}

\* The children created so far.
Created == IF pc[Parent] = "create" THEN idx ELSE nr_child

Looping(t) == pc[t] \in {"wait_flag", "run", "calling"}

\* The calls that a thread with index i makes, and the indices of heavy loops.
Rounds == [i \in 0 .. NR_MULTI_CALL_CHILD |-> NrCalls(i)]
Heavy == {i \in 0 .. NR_MULTI_CALL_CHILD : IsHeavy(i)}

\* A thread is inside a call while it is at that point of its loop.
CallsOK ==
    \A t \in Task :
        /\ call[t] # "idle" <=> pc[t] = "calling"
        /\ reply[t] => call[t] = "served"

\* The loop of a thread, and what it leaves.
LoopsOK ==
    \A t \in Task :
        /\ Looping(t) =>
              /\ params[t].child_idx = IF t = Parent THEN nr_child ELSE t
              /\ params[t].left \in 1 .. Rounds[params[t].child_idx]
              /\ params[t].ret = UNDEF
        /\ params[t].ret = "PASSED" => params[t].calls # 0

\* A child that runs has been created, the parent has not yet seen it complete,
\* and its parameters say where it is.
CreatedOK(c) ==
    /\ params[c].ret = UNDEF <=> Looping(c)
    /\ params[c].is_complete <=> pc[c] \in {"done_release", "none"}

ChildrenOK ==
    \A c \in Child :
        /\ pc[c] # "none" =>
              /\ c < Created /\ Owning
              /\ pc[Parent] \in {"poll", "poll_read"} => idx <= c
        /\ c < Created => CreatedOK(c)
        /\ c >= Created => params[c] = NewParams

\* The parent's own parameters and index.
ParentOK ==
    /\ pc[Parent] \in {"create", "signal"} => params[Parent].ret = UNDEF
    /\ pc[Parent] \in {"poll", "poll_read", "delete", "collect", "avg"} => params[Parent].ret # UNDEF
    /\ pc[Parent] \in {"signal", "poll"} => idx <= nr_child
    /\ pc[Parent] \in {"run", "calling"} => idx = 0
    /\ pc[Parent] = "poll_read" => idx < nr_child

\* The mutex exists while children may run, and one thread has it at a time.
Holding == {t \in Task : pc[t] \in {"done_set", "done_release", "poll_read"}}

MutexOK ==
    /\ mutex # NULL <=> Owning \/ pc[Parent] = "delete"
    /\ mutex # NULL => mutex.owner = Holding
    /\ \A t, u \in Holding : t = u

\* A call has failed if and only if a thread has learnt of it, or will.
Failing(t) == params[t].ret = "FAILED" \/ (call[t] = "served" /\ ~reply[t])

FaultOK == fault <=> \E t \in Task : Failing(t)

\* The asset of a heavy loop exists from its set to its remove.
Position(t) == (HeavyCalls(HeavyRounds) - params[t].left) % 3

AssetsOK ==
    \A t \in Task :
        Looping(t) /\ params[t].child_idx \in Heavy =>
            /\ call[t] # "served" /\ Position(t) # 0 => params[t].child_idx \in its
            /\ call[t] = "served" /\ reply[t] /\ Position(t) # 2 => params[t].child_idx \in its

\* The verdict.
VerdictOK ==
    /\ pc[Parent] = "avg" => \A t \in Runners : params[t].ret = "PASSED"
    /\ VerdictExact

\* The transmissions of a thread in this test, and of all of them.
Made ==
    [t \in Task |->
        IF params[t].ret = "PASSED" THEN params[t].calls
        ELSE IF Looping(t)
        THEN Rounds[params[t].child_idx] - params[t].left
               + (IF call[t] \in {"sent", "served"} THEN 1 ELSE 0)
        ELSE 0]

Sent == {tk \in Task \X Nat : tk[2] < Made[tk[1]]}

\* As long as no loop has failed the statistics count all the transmissions.
StatsOK ==
    (\A t \in Task : params[t].ret # "FAILED") =>
        IsFiniteSet(Sent) /\ nr_tx = Cardinality(Sent)

SInv ==
    /\ SuiteTypeOK /\ CallsOK /\ LoopsOK /\ ChildrenOK /\ ParentOK
    /\ MutexOK /\ FaultOK /\ AssetsOK /\ VerdictOK /\ StatsOK

-----------------------------------------------------------------------------
(* The constants. *)

\* The tasks are the children, numbered from 0, and the parent.
LEMMA Tasks ==
    /\ NR_MULTI_CALL_CHILD \in Nat
    /\ Parent = NR_MULTI_CALL_CHILD
    /\ Parent \in Task /\ Parent \notin Child
    /\ Child \subseteq Task
    /\ \A t \in Task : t \in Child \/ t = Parent
    /\ \A c \in Child : c \in Nat /\ c < NR_MULTI_CALL_CHILD
    /\ \A c \in 0 .. RtosThreads : c \in Nat /\ c <= NR_MULTI_CALL_CHILD
    /\ \A c \in Nat : c < RtosThreads => c \in Child
    /\ \A t \in Task : t \in 0 .. NR_MULTI_CALL_CHILD
    /\ RtosThreads \in Nat
<1>1. NR_MULTI_CALL_CHILD \in Nat
  BY SlotAssumption DEF NR_MULTI_CALL_CHILD
<1>. HIDE DEF NR_MULTI_CALL_CHILD
<1>. QED
  BY <1>1, TestTaskAssumption, RtosThreadsAssumption DEF Parent, Child

\* A runner makes a call at least; a heavy one in threes.
LEMMA RoundsPositive ==
    /\ Rounds \in [0 .. NR_MULTI_CALL_CHILD -> Nat \ {0}]
    /\ HeavyCalls(HeavyRounds) \in Nat
    /\ HeavyCalls(HeavyRounds) % 3 = 0
    /\ \A i \in Heavy : Rounds[i] = HeavyCalls(HeavyRounds)
<1>1. HeavyRounds \in Nat \ {0} /\ LightRounds \in Nat \ {0} /\ OooFactor \in Nat \ {0}
  BY RoundsAssumption
<1>2. HeavyCalls(HeavyRounds) \in Nat \ {0} /\ HeavyCalls(HeavyRounds) % 3 = 0
  BY <1>1 DEF HeavyCalls
<1>3. HeavyRounds * OooFactor \in Nat \ {0}
  BY <1>1
<1>4. ASSUME NEW i \in 0 .. NR_MULTI_CALL_CHILD PROVE NrCalls(i) \in Nat \ {0}
  BY <1>1, <1>2, <1>3 DEF NrCalls, LightCalls
<1>5. ASSUME NEW i \in Heavy PROVE Rounds[i] = HeavyCalls(HeavyRounds)
  BY DEF Heavy, Rounds, NrCalls
<1>. QED
  BY <1>2, <1>4, <1>5 DEF Rounds

\* Neither changes within a test.
LEMMA RoundsKept == ASSUME test' = test PROVE Rounds' = Rounds /\ Heavy' = Heavy
BY DEF Rounds, Heavy, NrCalls, IsHeavy

\* The next of the three steps.
LEMMA NextPosition ==
    ASSUME NEW h \in Nat, NEW n \in Nat, n > 1, n <= h, h % 3 = 0
    PROVE  /\ (h - n) % 3 = 2 => (h - (n - 1)) % 3 = 0
           /\ (h - n) % 3 = 1 => (h - (n - 1)) % 3 = 2
           /\ (h - n) % 3 = 0 => (h - (n - 1)) % 3 = 1
           /\ (h - n) % 3 \in 0 .. 2
OBVIOUS

-----------------------------------------------------------------------------
(* The mutex. *)

\* A thread that gets the mutex finds it free.
LEMMA AcquireResult ==
    ASSUME NEW m \in Mutex, NEW t \in Task, t \notin m.owner,
           os_wrapper_mutex_acquire(m, t, OS_WRAPPER_WAIT_FOREVER).ret # Blocked
    PROVE  /\ m.owner = {}
           /\ os_wrapper_mutex_acquire(m, t, OS_WRAPPER_WAIT_FOREVER).obj = [owner |-> {t}]
<1>1. m # NULL /\ m.owner # {t} /\ m = [owner |-> m.owner]
  BY DEF Mutex, NULL
<1>2. CASE m.owner = {}
  BY <1>1, <1>2 DEF Mutex, os_wrapper_mutex_acquire, Report, osMutexAcquire, osOK, Blocked
<1>3. CASE m.owner # {}
  BY <1>1, <1>3 DEF os_wrapper_mutex_acquire, Report, osMutexAcquire, Blocked, Timeout,
                    OS_WRAPPER_WAIT_FOREVER, osWaitForever
<1>. QED BY <1>2, <1>3

\* Its release, by the thread that has it, frees it.
LEMMA ReleaseResult ==
    ASSUME NEW m \in Mutex, NEW t \in Task, m.owner = {t}
    PROVE  os_wrapper_mutex_release(m, t).obj = [owner |-> {}]
<1>1. m # NULL /\ m = [owner |-> m.owner]
  BY DEF Mutex, NULL
<1>. QED
  BY <1>1 DEF os_wrapper_mutex_release, Report, osMutexRelease

\* What a mutex is, and that no mutex is NULL.
LEMMA MutexKinds ==
    /\ \A s \in SUBSET Task : [owner |-> s] \in Mutex /\ [owner |-> s] # NULL /\ [owner |-> s].owner = s
    /\ NULL \notin Mutex
BY DEF Mutex, NULL

-----------------------------------------------------------------------------
(* Steps that leave the loops and the calls alone. *)

\* A step that makes and transmits no call keeps the account of them.
LEMMA StatsFrame ==
    ASSUME StatsOK, Made' = Made, nr_tx' = nr_tx,
           \A t \in Task : params[t].ret = "FAILED" => params'[t].ret = "FAILED"
    PROVE  StatsOK'
<1>1. Sent' = Sent
  BY DEF Sent
<1>2. (IsFiniteSet(Sent) <=> IsFiniteSet(Sent')) /\ Cardinality(Sent') = Cardinality(Sent)
  BY <1>1, Zenon
<1>. HIDE DEF Sent, Made
<1>. QED
  BY <1>2 DEF StatsOK

\* The steps of synchronisation: every loop, call and verdict stays as it is.
Quiet ==
    /\ UNCHANGED <<callVars, its, reply, fault>>
    /\ nr_child' = nr_child \/ ~Looping(Parent)
    /\ test' = test \/ \A t \in Task : ~Looping(t)
    /\ \A t \in Task :
          /\ pc'[t] \in {"wait_flag", "run", "calling"} <=> Looping(t)
          /\ pc'[t] = "calling" <=> pc[t] = "calling"
          /\ params'[t].child_idx = params[t].child_idx
          /\ params'[t].left = params[t].left
          /\ params'[t].calls = params[t].calls
          /\ params'[t].ret = params[t].ret

\* The steps of a child outside its loop leave calls, loops and counts
\* alone.
LEMMA QuietStep ==
    ASSUME SInv, Quiet
    PROVE  CallsOK' /\ LoopsOK' /\ FaultOK' /\ AssetsOK' /\ StatsOK'
<1>. USE DEF SInv
<1>1. CallsOK'
  BY DEF CallsOK, Quiet, callVars
<1>2. FaultOK'
  <2>1. ASSUME NEW t \in Task PROVE Failing(t)' <=> Failing(t)
    BY DEF Failing, Quiet, callVars
  <2>2. fault' = fault
    BY DEF Quiet
  <2>. QED
    BY <2>1, <2>2 DEF FaultOK
<1>3. ASSUME test' = test PROVE LoopsOK'
  BY <1>3, RoundsKept DEF LoopsOK, Quiet, Looping
<1>4. ASSUME \A t \in Task : ~Looping(t) PROVE LoopsOK'
  BY <1>4 DEF LoopsOK, Quiet, Looping
<1>5. ASSUME test' = test PROVE AssetsOK'
  BY <1>5, RoundsKept DEF AssetsOK, Quiet, Looping, Position, callVars
<1>6. ASSUME \A t \in Task : ~Looping(t) PROVE AssetsOK'
  BY <1>6 DEF AssetsOK, Quiet, Looping
<1>7. Made' = Made
  <2>1. ASSUME NEW t \in Task
        PROVE  (IF params[t].ret = "PASSED" THEN params[t].calls
                ELSE IF Looping(t)
                THEN Rounds[params[t].child_idx] - params[t].left
                        + (IF call[t] \in {"sent", "served"} THEN 1 ELSE 0)
                ELSE 0)'
               = (IF params[t].ret = "PASSED" THEN params[t].calls
                  ELSE IF Looping(t)
                  THEN Rounds[params[t].child_idx] - params[t].left
                          + (IF call[t] \in {"sent", "served"} THEN 1 ELSE 0)
                  ELSE 0)
    <3>1. CASE test' = test
      BY <3>1, RoundsKept DEF Quiet, Looping, callVars
    <3>2. CASE \A u \in Task : ~Looping(u)
      BY <3>2 DEF Quiet, Looping
    <3>. QED
      BY <3>1, <3>2 DEF Quiet
  <2>. QED
    BY <2>1, Zenon DEF Made
<1>8. StatsOK'
  BY <1>7, StatsFrame DEF Quiet, callVars
<1>. QED
  BY <1>1, <1>2, <1>3, <1>4, <1>5, <1>6, <1>8 DEF Quiet

-----------------------------------------------------------------------------
(* The steps of a child. *)

\* A child leaves the wait for the parent's signal.
LEMMA WaitStart ==
    ASSUME SInv, NEW c \in Child, wait_start(c)
    PROVE  SInv'
<1>. USE DEF SInv
<1>1. /\ pc[c] = "wait_flag" /\ pc' = [pc EXCEPT ![c] = "run"]
      /\ UNCHANGED <<callVars, test, idx, nr_child, params, mutex, its, reply, fault, result>>
  BY DEF wait_start, At, GotoT
<1>2. c \in Task /\ c # Parent
  BY Tasks
<1>3. Quiet
  BY <1>1, <1>2 DEF Quiet, Looping, SuiteTypeOK
<1>4. CallsOK' /\ LoopsOK' /\ FaultOK' /\ AssetsOK' /\ StatsOK'
  BY <1>3, QuietStep
<1>5. SuiteTypeOK'
  BY <1>1, <1>2, Tasks DEF SuiteTypeOK, callVars, ChildLabel
<1>6. Created' = Created /\ pc'[Parent] = pc[Parent]
  BY <1>1, <1>2, Tasks DEF Created, SuiteTypeOK
<1>7. ChildrenOK'
  BY <1>1, <1>2, <1>6, Tasks DEF ChildrenOK, CreatedOK, Looping, Owning, SuiteTypeOK
<1>8. ParentOK'
  BY <1>1, <1>2, <1>6, Tasks DEF ParentOK
<1>9. MutexOK'
  <2>1. Holding' = Holding
    BY <1>1, <1>2 DEF Holding, SuiteTypeOK
  <2>. QED
    BY <1>1, <1>6, <2>1 DEF MutexOK, Owning
<1>10. VerdictOK'
  BY <1>1, <1>6 DEF VerdictOK, VerdictExact, At, Runners
<1>. QED
  BY <1>4, <1>5, <1>7, <1>8, <1>9, <1>10

\* A child asks for the mutex once its loop is over.
LEMMA DoneLock ==
    ASSUME SInv, NEW c \in Child, done_lock(c)
    PROVE  SInv'
<1>. USE DEF SInv
<1>1. /\ pc[c] = "done_lock" /\ pc' = [pc EXCEPT ![c] = "done_set"]
      /\ os_wrapper_mutex_acquire(mutex, c, OS_WRAPPER_WAIT_FOREVER).ret # Blocked
      /\ mutex' = os_wrapper_mutex_acquire(mutex, c, OS_WRAPPER_WAIT_FOREVER).obj
      /\ UNCHANGED <<callVars, test, idx, nr_child, params, its, reply, fault, result>>
  BY DEF done_lock, At, GotoT, testRest
<1>2. c \in Task /\ c # Parent
  BY Tasks
<1>3. Quiet
  BY <1>1, <1>2 DEF Quiet, Looping, SuiteTypeOK
<1>4. CallsOK' /\ LoopsOK' /\ FaultOK' /\ AssetsOK' /\ StatsOK'
  BY <1>3, QuietStep
<1>5. mutex \in Mutex /\ mutex # NULL /\ mutex.owner = Holding /\ c \notin Holding
  BY <1>1 DEF ChildrenOK, MutexOK, SuiteTypeOK, Holding
<1>6. Holding = {} /\ mutex' = [owner |-> {c}]
  BY <1>1, <1>2, <1>5, AcquireResult
<1>7. mutex' \in Mutex /\ mutex' # NULL /\ mutex'.owner = {c}
  BY <1>2, <1>6, MutexKinds
<1>8. SuiteTypeOK'
  BY <1>1, <1>2, <1>7, Tasks DEF SuiteTypeOK, callVars, ChildLabel
<1>9. Created' = Created /\ pc'[Parent] = pc[Parent]
  BY <1>1, <1>2, Tasks DEF Created, SuiteTypeOK
<1>10. ChildrenOK'
  BY <1>1, <1>2, <1>9, Tasks DEF ChildrenOK, CreatedOK, Looping, Owning, SuiteTypeOK
<1>11. ParentOK'
  BY <1>1, <1>2, <1>9, Tasks DEF ParentOK
<1>12. MutexOK'
  <2>1. Holding' = {c}
    BY <1>1, <1>2, <1>6 DEF Holding, SuiteTypeOK
  <2>2. Owning /\ Owning'
    BY <1>1, <1>9 DEF ChildrenOK, Owning
  <2>. QED
    BY <1>7, <2>1, <2>2 DEF MutexOK
<1>13. VerdictOK'
  BY <1>1, <1>9 DEF VerdictOK, VerdictExact, At, Runners
<1>. QED
  BY <1>4, <1>8, <1>10, <1>11, <1>12, <1>13

\* A field of a thread's parameters is written.
LEMMA SetComplete ==
    ASSUME NEW r \in Params, NEW b \in BOOLEAN
    PROVE  LET s == [r EXCEPT !.is_complete = b]
           IN  /\ s \in Params /\ s.is_complete = b
               /\ s.child_idx = r.child_idx /\ s.left = r.left
               /\ s.calls = r.calls /\ s.ret = r.ret
BY DEF Params

\* A child sets is_complete under the mutex.
LEMMA DoneSet ==
    ASSUME SInv, NEW c \in Child, done_set(c)
    PROVE  SInv'
<1>. USE DEF SInv
<1>1. /\ pc[c] = "done_set" /\ pc' = [pc EXCEPT ![c] = "done_release"]
      /\ params' = [params EXCEPT ![c] = [params[c] EXCEPT !.is_complete = TRUE]]
      /\ UNCHANGED <<callVars, test, idx, nr_child, mutex, its, reply, fault, result>>
  BY DEF done_set, At, GotoT, testRest
<1>2. c \in Task /\ c # Parent
  BY Tasks
<1>3. /\ params' \in [Task -> Params]
      /\ params'[c].is_complete = TRUE
      /\ params'[c].child_idx = params[c].child_idx /\ params'[c].left = params[c].left
      /\ params'[c].calls = params[c].calls /\ params'[c].ret = params[c].ret
      /\ \A t \in Task \ {c} : params'[t] = params[t]
  BY <1>1, <1>2, SetComplete DEF SuiteTypeOK
<1>4. Quiet
  BY <1>1, <1>2, <1>3 DEF Quiet, Looping, SuiteTypeOK
<1>5. CallsOK' /\ LoopsOK' /\ FaultOK' /\ AssetsOK' /\ StatsOK'
  BY <1>4, QuietStep
<1>6. SuiteTypeOK'
  BY <1>1, <1>2, <1>3, Tasks DEF SuiteTypeOK, callVars, ChildLabel
<1>7. Created' = Created /\ pc'[Parent] = pc[Parent]
  BY <1>1, <1>2, Tasks DEF Created, SuiteTypeOK
<1>8. ChildrenOK'
  <2>1. c < Created /\ ~(c >= Created)
    BY <1>1, Tasks DEF ChildrenOK, Created, SuiteTypeOK
  <2>2. CreatedOK(c)'
    BY <1>1, <1>2, <1>3, <2>1 DEF ChildrenOK, CreatedOK, Looping, SuiteTypeOK
  <2>3. ASSUME NEW d \in Child, d # c
        PROVE  pc'[d] = pc[d] /\ params'[d] = params[d] /\ (CreatedOK(d)' <=> CreatedOK(d))
    BY <1>1, <1>3, <2>3, Tasks DEF CreatedOK, Looping, SuiteTypeOK
  <2>. QED
    BY <1>1, <1>2, <1>7, <2>1, <2>2, <2>3, Tasks DEF ChildrenOK, Owning
<1>9. ParentOK'
  BY <1>1, <1>2, <1>3, <1>7, Tasks DEF ParentOK
<1>10. MutexOK'
  <2>1. Holding' = Holding
    BY <1>1, <1>2 DEF Holding, SuiteTypeOK
  <2>. QED
    BY <1>1, <1>7, <2>1 DEF MutexOK, Owning
<1>11. VerdictOK'
  BY <1>1, <1>3, <1>2, <1>7, Tasks DEF VerdictOK, VerdictExact, At, Runners, ChildrenOK, Owning
<1>. QED
  BY <1>5, <1>6, <1>8, <1>9, <1>10, <1>11

\* A child gives the mutex back and ends.
LEMMA DoneRelease ==
    ASSUME SInv, NEW c \in Child, done_release(c)
    PROVE  SInv'
<1>. USE DEF SInv
<1>1. /\ pc[c] = "done_release" /\ pc' = [pc EXCEPT ![c] = "none"]
      /\ mutex' = os_wrapper_mutex_release(mutex, c).obj
      /\ UNCHANGED <<callVars, test, idx, nr_child, params, its, reply, fault, result>>
  BY DEF done_release, At, GotoT, testRest
<1>2. c \in Task /\ c # Parent
  BY Tasks
<1>3. Quiet
  BY <1>1, <1>2 DEF Quiet, Looping, SuiteTypeOK
<1>4. CallsOK' /\ LoopsOK' /\ FaultOK' /\ AssetsOK' /\ StatsOK'
  BY <1>3, QuietStep
<1>5. mutex \in Mutex /\ mutex # NULL /\ mutex.owner = Holding
  BY <1>1 DEF ChildrenOK, MutexOK, SuiteTypeOK
<1>6. Holding = {c}
  BY <1>1, <1>2 DEF MutexOK, Holding
<1>7. mutex' = [owner |-> {}]
  BY <1>1, <1>2, <1>5, <1>6, ReleaseResult
<1>8. mutex' \in Mutex /\ mutex' # NULL /\ mutex'.owner = {}
  BY <1>7, MutexKinds
<1>9. SuiteTypeOK'
  BY <1>1, <1>2, <1>8, Tasks DEF SuiteTypeOK, callVars, ChildLabel
<1>10. Created' = Created /\ pc'[Parent] = pc[Parent]
  BY <1>1, <1>2, Tasks DEF Created, SuiteTypeOK
<1>11. ChildrenOK'
  BY <1>1, <1>2, <1>10, Tasks DEF ChildrenOK, CreatedOK, Looping, Owning, SuiteTypeOK
<1>12. ParentOK'
  BY <1>1, <1>2, <1>10, Tasks DEF ParentOK
<1>13. MutexOK'
  <2>1. Holding' = {}
    BY <1>1, <1>2, <1>6 DEF Holding, SuiteTypeOK
  <2>2. Owning /\ Owning'
    BY <1>1, <1>10 DEF ChildrenOK, Owning
  <2>. QED
    BY <1>8, <2>1, <2>2 DEF MutexOK
<1>14. VerdictOK'
  BY <1>1, <1>10 DEF VerdictOK, VerdictExact, At, Runners
<1>. QED
  BY <1>4, <1>9, <1>11, <1>12, <1>13, <1>14

-----------------------------------------------------------------------------
(* The steps of the parent after its loop. *)

\* Steps of the parent that change nothing but its place, its index, the mutex
\* and the result.
ParentMoves(label) ==
    /\ pc' = [pc EXCEPT ![Parent] = label]
    /\ pc[Parent] \notin {"run", "calling", "create"}
    /\ label \in ParentLabel \ {"run", "calling", "create"}
    /\ UNCHANGED <<callVars, test, nr_child, params, its, reply, fault>>

\* What such a step leaves as it was.
ParentMoved(label) ==
    /\ CallsOK' /\ LoopsOK' /\ FaultOK' /\ AssetsOK' /\ StatsOK'
    /\ Created' = nr_child /\ Created = nr_child /\ Runners' = Runners
    /\ pc' \in [Task -> ChildLabel \cup ParentLabel]
    /\ pc'[Parent] = label /\ label \in ParentLabel
    /\ \A c \in Child : pc'[c] = pc[c] /\ (CreatedOK(c)' <=> CreatedOK(c))
    /\ UNCHANGED <<callVars, test, nr_child, params, its, reply, fault>>

\* A step of the parent alone moves no child and no call.
LEMMA ParentFrame ==
    ASSUME SInv, NEW label, ParentMoves(label)
    PROVE  ParentMoved(label)
<1>. USE DEF SInv
<1>1. Quiet
  BY Tasks DEF ParentMoves, Quiet, Looping, SuiteTypeOK, ParentLabel
<1>2. CallsOK' /\ LoopsOK' /\ FaultOK' /\ AssetsOK' /\ StatsOK'
  BY <1>1, QuietStep
<1>3. /\ pc' \in [Task -> ChildLabel \cup ParentLabel]
      /\ pc'[Parent] = label /\ label \in ParentLabel
      /\ \A c \in Child : pc'[c] = pc[c]
  BY Tasks DEF ParentMoves, SuiteTypeOK
<1>4. Created' = nr_child /\ Created = nr_child
  BY <1>3 DEF ParentMoves, Created
<1>5. Runners' = Runners
  BY DEF Runners, ParentMoves
<1>6. ASSUME NEW c \in Child PROVE CreatedOK(c)' <=> CreatedOK(c)
  BY <1>3 DEF CreatedOK, Looping, ParentMoves
<1>. QED
  BY <1>2, <1>3, <1>4, <1>5, <1>6 DEF ParentMoved, ParentMoves

\* The parent takes the mutex to look at a child, or waits for it.
LEMMA PollLock ==
    ASSUME SInv, poll_lock
    PROVE  SInv'
<1>. USE DEF SInv
<1>1. CASE idx < nr_child
  <2>1. /\ pc[Parent] = "poll" /\ ParentMoves("poll_read")
        /\ os_wrapper_mutex_acquire(mutex, Parent, OS_WRAPPER_WAIT_FOREVER).ret # Blocked
        /\ mutex' = os_wrapper_mutex_acquire(mutex, Parent, OS_WRAPPER_WAIT_FOREVER).obj
        /\ UNCHANGED <<idx, result>>
    BY <1>1 DEF poll_lock, At, GotoT, testRest, ParentLabel, ParentAcquire, ParentMoves
  <2>0. ParentMoved("poll_read")
    BY <2>1, ParentFrame
  <2>2. mutex \in Mutex /\ mutex # NULL /\ mutex.owner = Holding /\ Parent \notin Holding
    BY <2>1 DEF MutexOK, SuiteTypeOK, Holding, Owning
  <2>3. Holding = {} /\ mutex' = [owner |-> {Parent}]
    BY <2>1, <2>2, Tasks, AcquireResult
  <2>4. mutex' \in Mutex /\ mutex' # NULL /\ mutex'.owner = {Parent}
    BY <2>3, Tasks, MutexKinds
  <2>5. SuiteTypeOK'
    BY <2>1, <2>4, <2>0 DEF ParentMoved, SuiteTypeOK, callVars
  <2>6. ChildrenOK'
    BY <2>1, <2>0, Tasks DEF ParentMoved, ChildrenOK, Owning, SuiteTypeOK
  <2>7. ParentOK'
    BY <1>1, <2>1, <2>0 DEF ParentMoved, ParentOK
  <2>8. MutexOK'
    <3>1. ASSUME NEW t \in Task PROVE t \in Holding' <=> t = Parent
      BY <2>1, <2>3, <2>0, Tasks DEF ParentMoved, Holding
    <3>2. Holding' = {Parent}
      BY <3>1, Tasks DEF Holding
    <3>3. Owning'
      BY <2>1, <2>0 DEF ParentMoved, Owning
    <3>. QED
      BY <2>4, <3>2, <3>3 DEF MutexOK
  <2>9. VerdictOK'
    BY <2>1, <2>0 DEF ParentMoved, VerdictOK, VerdictExact, At
  <2>. QED
    BY <2>1, <2>5, <2>6, <2>7, <2>8, <2>9, <2>0 DEF ParentMoved
<1>2. CASE ~(idx < nr_child)
  <2>1. /\ pc[Parent] = "poll" /\ ParentMoves("delete")
        /\ UNCHANGED <<idx, mutex, result>>
    BY <1>2 DEF poll_lock, At, GotoT, testRest, ParentLabel, ParentMoves
  <2>0. ParentMoved("delete")
    BY <2>1, ParentFrame
  <2>2. \A c \in Child : pc[c] = "none"
    <3>1. ASSUME NEW c \in Child, pc[c] # "none" PROVE FALSE
      <4>1. c < nr_child /\ idx <= c
        BY <2>1, <3>1, <2>0 DEF ParentMoved, ChildrenOK
      <4>. QED
        BY <1>2, <4>1, Tasks DEF SuiteTypeOK
    <3>. QED BY <3>1
  <2>3. SuiteTypeOK'
    BY <2>1, <2>0 DEF ParentMoved, SuiteTypeOK, callVars
  <2>4. ChildrenOK'
    BY <2>1, <2>2, <2>0, Tasks DEF ParentMoved, ChildrenOK, Owning, SuiteTypeOK
  <2>5. ParentOK'
    BY <2>1, <2>0 DEF ParentMoved, ParentOK
  <2>6. MutexOK'
    <3>1. Holding' = Holding
      BY <2>1, <2>0, Tasks DEF ParentMoved, Holding
    <3>2. mutex # NULL
      BY <2>1 DEF MutexOK, Owning
    <3>3. pc'[Parent] = "delete"
      BY <2>1, <2>0 DEF ParentMoved
    <3>. QED
      BY <2>1, <3>1, <3>2, <3>3 DEF MutexOK
  <2>7. VerdictOK'
    BY <2>1, <2>0 DEF ParentMoved, VerdictOK, VerdictExact, At
  <2>. QED
    BY <2>1, <2>3, <2>4, <2>5, <2>6, <2>7, <2>0 DEF ParentMoved
<1>. QED BY <1>1, <1>2

\* The parent reads is_complete and goes on to the next child or polls
\* again.
LEMMA PollRead ==
    ASSUME SInv, poll_read
    PROVE  SInv'
<1>. USE DEF SInv
<1>1. /\ pc[Parent] = "poll_read" /\ ParentMoves("poll")
      /\ mutex' = os_wrapper_mutex_release(mutex, Parent).obj
      /\ idx' = IF params[idx].is_complete THEN idx + 1 ELSE idx
      /\ UNCHANGED result
  BY DEF poll_read, At, GotoT, testRest, ParentLabel, ParentMoves
<1>0. ParentMoved("poll")
  BY <1>1, ParentFrame
<1>2. mutex \in Mutex /\ mutex # NULL /\ mutex.owner = Holding /\ Holding = {Parent}
  BY <1>1, Tasks DEF MutexOK, SuiteTypeOK, Holding, Owning
<1>3. mutex' = [owner |-> {}]
  BY <1>1, <1>2, Tasks, ReleaseResult
<1>4. mutex' \in Mutex /\ mutex' # NULL /\ mutex'.owner = {}
  BY <1>3, MutexKinds
<1>5. idx \in Child /\ idx < nr_child
  BY <1>1, Tasks DEF ParentOK, SuiteTypeOK
<1>6. idx' \in 0 .. RtosThreads /\ idx' <= nr_child /\ idx' \in {idx, idx + 1}
  BY <1>1, <1>5, Tasks DEF SuiteTypeOK
<1>7. ASSUME params[idx].is_complete PROVE pc[idx] = "none"
  <2>1. CreatedOK(idx)
    BY <1>1, <1>5, <1>0 DEF ParentMoved, ChildrenOK
  <2>2. pc[idx] \in {"done_release", "none"}
    BY <1>7, <2>1 DEF CreatedOK
  <2>3. idx \notin Holding
    BY <1>2, <1>5, Tasks
  <2>. QED
    BY <1>5, <2>2, <2>3, Tasks DEF Holding
<1>8. SuiteTypeOK'
  BY <1>1, <1>4, <1>6, <1>0 DEF ParentMoved, SuiteTypeOK, callVars
<1>9. ChildrenOK'
  <2>1. ASSUME NEW c \in Child, pc'[c] # "none" PROVE c < Created' /\ Owning' /\ idx' <= c
    <3>1. pc[c] # "none" /\ c < nr_child /\ idx <= c /\ c \in Int /\ idx \in Int
      BY <1>1, <2>1, <1>0, Tasks DEF ParentMoved, ChildrenOK, SuiteTypeOK
    <3>2. c # idx \/ idx' = idx
      BY <1>1, <1>7, <3>1
    <3>3. idx' <= c
      BY <1>6, <3>1, <3>2
    <3>. QED
      BY <1>1, <3>1, <3>3, <1>0 DEF ParentMoved, Owning
  <2>. QED
    BY <1>1, <2>1, <1>0, Tasks DEF ParentMoved, ChildrenOK
<1>10. ParentOK'
  BY <1>1, <1>6, <1>0 DEF ParentMoved, ParentOK
<1>11. MutexOK'
  <2>1. Holding' = {}
    BY <1>1, <1>2, <1>0, Tasks DEF ParentMoved, Holding
  <2>2. Owning'
    BY <1>1, <1>0 DEF ParentMoved, Owning
  <2>. QED
    BY <1>4, <2>1, <2>2 DEF MutexOK
<1>12. VerdictOK'
  BY <1>1, <1>0 DEF ParentMoved, VerdictOK, VerdictExact, At
<1>. QED
  BY <1>1, <1>8, <1>9, <1>10, <1>11, <1>12, <1>0 DEF ParentMoved

\* Once the children are complete nobody loops and nobody is inside a call.
LEMMA NoneRuns ==
    ASSUME SInv, ~Owning
    PROVE  /\ \A c \in Child : pc[c] = "none"
           /\ \A t \in Task : ~Looping(t) /\ call[t] = "idle"
           /\ Holding = {}
<1>. USE DEF SInv
<1>1. \A c \in Child : pc[c] = "none"
  BY DEF ChildrenOK
<1>2. pc[Parent] \notin {"run", "calling", "poll_read"}
  BY DEF Owning
<1>3. pc[Parent] # "wait_flag" /\ pc[Parent] \notin {"done_set", "done_release"}
  BY DEF SuiteTypeOK, ParentLabel
<1>4. \A t \in Task : ~Looping(t) /\ pc[t] # "calling"
  BY <1>1, <1>2, <1>3, Tasks DEF Looping
<1>5. Holding = {}
  BY <1>1, <1>2, <1>3, Tasks DEF Holding
<1>. QED
  BY <1>1, <1>4, <1>5 DEF CallsOK

\* The parent deletes the mutex after every child has released it.
LEMMA DeleteMutex ==
    ASSUME SInv, delete_mutex
    PROVE  SInv'
<1>. USE DEF SInv
<1>1. /\ pc[Parent] = "delete" /\ ParentMoves("collect")
      /\ mutex' = os_wrapper_mutex_delete(mutex).obj
      /\ UNCHANGED <<idx, result>>
  BY DEF delete_mutex, At, GotoT, testRest, ParentLabel, ParentMoves
<1>0. ParentMoved("collect")
  BY <1>1, ParentFrame
<1>2. mutex' = NULL
  BY <1>1 DEF os_wrapper_mutex_delete, Report, osMutexDelete
<1>3. \A c \in Child : pc[c] = "none"
  BY <1>1, NoneRuns DEF Owning
<1>4. SuiteTypeOK'
  BY <1>0, <1>1, <1>2 DEF ParentMoved, SuiteTypeOK, callVars
<1>5. ChildrenOK'
  BY <1>0, <1>1, <1>3, Tasks DEF ParentMoved, ChildrenOK
<1>6. ParentOK'
  BY <1>0, <1>1 DEF ParentMoved, ParentOK
<1>7. MutexOK'
  <2>1. Holding' = {}
    BY <1>0, <1>3, Tasks DEF ParentMoved, Holding
  <2>. QED
    BY <1>0, <1>2, <2>1 DEF ParentMoved, MutexOK, Owning
<1>8. VerdictOK'
  BY <1>0, <1>1 DEF ParentMoved, VerdictOK, VerdictExact, At
<1>. QED
  BY <1>0, <1>1, <1>4, <1>5, <1>6, <1>7, <1>8 DEF ParentMoved

\* A test whose children are complete: its runners have results, and a call has
\* failed if and only if one of them is a failure.
LEMMA Results ==
    ASSUME SInv, pc[Parent] \in {"collect", "avg"}
    PROVE  /\ \A t \in Runners : t \in Task /\ params[t].ret \in {"PASSED", "FAILED"}
           /\ \A t \in Task \ Runners : params[t].ret = UNDEF
           /\ fault <=> \E t \in Runners : params[t].ret # "PASSED"
<1>. USE DEF SInv
<1>1. ~Owning /\ Created = nr_child
  BY DEF Owning, Created
<1>2. \A t \in Task : params[t] \in Params
  BY DEF SuiteTypeOK
<1>3. \A t \in Task : params[t].ret \in {UNDEF, "PASSED", "FAILED"}
  BY <1>2 DEF Params
<1>4. ASSUME NEW t \in Runners PROVE t \in Task /\ params[t].ret \in {"PASSED", "FAILED"}
  <2>1. CASE t = Parent
    BY <1>3, <2>1, Tasks DEF ParentOK
  <2>2. CASE t # Parent
    <3>1. t \in Child /\ t < Created
      BY <1>1, <1>4, <2>2, Tasks DEF Runners, SuiteTypeOK
    <3>2. params[t].ret # UNDEF
      BY <1>1, <3>1, NoneRuns, Tasks DEF ChildrenOK, CreatedOK
    <3>. QED
      BY <1>3, <3>1, <3>2, Tasks
  <2>. QED BY <2>1, <2>2
<1>5. ASSUME NEW t \in Task \ Runners PROVE params[t].ret = UNDEF
  <2>1. t \in Child /\ t >= Created
    BY <1>1, Tasks DEF Runners, SuiteTypeOK
  <2>. QED
    BY <2>1 DEF ChildrenOK, NewParams
<1>6. ASSUME NEW t \in Task PROVE Failing(t) <=> params[t].ret = "FAILED"
  BY <1>1, NoneRuns DEF Failing
<1>. QED
  BY <1>4, <1>5, <1>6 DEF FaultOK, UNDEF

\* The steps that end a test: the children are done and the mutex is gone.
LEMMA EndStep ==
    ASSUME SInv, NEW label \in {"avg", "next"}, ParentMoves(label),
           pc[Parent] \in {"collect", "avg"},
           UNCHANGED <<idx, mutex>>, result' \in [1 .. 3 -> {"none", "PASSED", "FAILED"}],
           VerdictOK'
    PROVE  SInv'
<1>. USE DEF SInv
<1>1. ParentMoved(label)
  BY ParentFrame
<1>2. SuiteTypeOK'
  BY <1>1 DEF ParentMoved, SuiteTypeOK, callVars
<1>3. ~Owning
  BY DEF Owning
<1>4. ChildrenOK'
  BY <1>1, <1>3, NoneRuns, Tasks DEF ParentMoved, ChildrenOK
<1>5. ParentOK'
  BY <1>1 DEF ParentMoved, ParentOK
<1>6. MutexOK'
  <2>1. Holding' = {}
    BY <1>1, <1>3, NoneRuns, Tasks DEF ParentMoved, Holding
  <2>2. mutex' = NULL
    BY <1>3 DEF MutexOK
  <2>. QED
    BY <1>1, <2>1, <2>2 DEF ParentMoved, MutexOK, Owning
<1>. QED
  BY <1>1, <1>2, <1>4, <1>5, <1>6 DEF ParentMoved

\* The parent collects the children's verdicts.
LEMMA Collect ==
    ASSUME SInv, collect
    PROVE  SInv'
<1>. USE DEF SInv
<1>1. CASE \A t \in Runners : params[t].ret = "PASSED"
  <2>1. /\ pc[Parent] = "collect" /\ ParentMoves("avg")
        /\ UNCHANGED <<idx, mutex, result>>
    BY <1>1 DEF collect, At, GotoT, ParentLabel, ParentMoves
  <2>2. ParentMoved("avg")
    BY <2>1, ParentFrame
  <2>3. VerdictOK'
    BY <1>1, <2>2 DEF ParentMoved, VerdictOK, VerdictExact, At
  <2>4. result' \in [1 .. 3 -> {"none", "PASSED", "FAILED"}]
    BY <2>1 DEF SuiteTypeOK
  <2>. QED
    BY <2>1, <2>3, <2>4, EndStep
<1>2. CASE ~(\A t \in Runners : params[t].ret = "PASSED")
  <2>1. /\ pc[Parent] = "collect" /\ ParentMoves("next")
        /\ result' = [result EXCEPT ![test] = "FAILED"]
        /\ UNCHANGED <<idx, mutex>>
    BY <1>2 DEF collect, At, GotoT, ParentLabel, ParentMoves
  <2>2. ParentMoved("next")
    BY <2>1, ParentFrame
  <2>3. fault
    BY <1>2, <2>1, Results
  <2>4. result'[test] = "FAILED" /\ result' \in [1 .. 3 -> {"none", "PASSED", "FAILED"}]
    BY <2>1 DEF SuiteTypeOK
  <2>5. VerdictOK'
    BY <2>2, <2>3, <2>4 DEF ParentMoved, VerdictOK, VerdictExact, At
  <2>. QED
    BY <2>1, <2>4, <2>5, EndStep
<1>. QED BY <1>1, <1>2

\* The parent reads the mailbox's statistics.
LEMMA ReportStep ==
    ASSUME SInv, report
    PROVE  SInv'
<1>. USE DEF SInv
<1>1. /\ pc[Parent] = "avg" /\ ParentMoves("next")
      /\ result' = [result EXCEPT ![test] = "PASSED"]
      /\ UNCHANGED <<idx, mutex>>
  BY DEF report, At, GotoT, ParentLabel, ParentMoves
<1>2. ParentMoved("next")
  BY <1>1, ParentFrame
<1>3. ~fault
  BY <1>1, Results DEF VerdictOK
<1>4. result'[test] = "PASSED" /\ result' \in [1 .. 3 -> {"none", "PASSED", "FAILED"}]
  BY <1>1 DEF SuiteTypeOK
<1>5. VerdictOK'
  BY <1>2, <1>3, <1>4 DEF ParentMoved, VerdictOK, VerdictExact, At
<1>. QED
  BY <1>1, <1>4, <1>5, EndStep

\* The suite goes on to the next test.
LEMMA NextTest ==
    ASSUME SInv, next_test
    PROVE  SInv'
<1>. USE DEF SInv
<1>1. PICK label \in {"start", "finished"} :
        /\ pc[Parent] = "next" /\ pc' = [pc EXCEPT ![Parent] = label]
        /\ test' \in 1 .. 3
        /\ UNCHANGED <<callVars, idx, nr_child, params, mutex, its, reply, fault, result>>
  <2>1. Len(Tests) = 3
    BY DEF Tests
  <2>2. CASE test < 3
    BY <2>1, <2>2 DEF next_test, At, GotoT, SuiteTypeOK
  <2>3. CASE ~(test < 3)
    BY <2>1, <2>3 DEF next_test, At, GotoT, SuiteTypeOK
  <2>. QED BY <2>2, <2>3
<1>2. ~Owning /\ (\A c \in Child : pc[c] = "none")
  BY <1>1, NoneRuns DEF Owning
<1>3. /\ pc' \in [Task -> ChildLabel \cup ParentLabel]
      /\ pc'[Parent] = label /\ label \in ParentLabel
      /\ \A c \in Child : pc'[c] = pc[c]
  BY <1>1, Tasks DEF SuiteTypeOK, ParentLabel
<1>4. Quiet
  <2>1. \A t \in Task : ~Looping(t)
    BY <1>2, NoneRuns
  <2>2. ASSUME NEW t \in Task PROVE pc'[t] \notin {"wait_flag", "run", "calling"} /\ pc[t] # "calling"
    BY <1>1, <1>2, <1>3, <2>1, Tasks DEF Looping
  <2>. QED
    BY <1>1, <2>1, <2>2 DEF Quiet
<1>5. CallsOK' /\ LoopsOK' /\ FaultOK' /\ AssetsOK' /\ StatsOK'
  BY <1>4, QuietStep
<1>6. SuiteTypeOK'
  BY <1>1, <1>3 DEF SuiteTypeOK, callVars
<1>7. ChildrenOK'
  <2>1. Created' = Created
    BY <1>1, <1>3 DEF Created
  <2>2. ASSUME NEW c \in Child PROVE CreatedOK(c)' <=> CreatedOK(c)
    BY <1>1, <1>3 DEF CreatedOK, Looping
  <2>. QED
    BY <1>1, <1>2, <1>3, <2>1, <2>2 DEF ChildrenOK
<1>8. ParentOK'
  BY <1>3 DEF ParentOK
<1>9. MutexOK'
  <2>1. Holding' = {}
    BY <1>2, <1>3, Tasks DEF Holding
  <2>2. mutex' = NULL
    BY <1>1, <1>2 DEF MutexOK
  <2>. QED
    BY <1>3, <2>1, <2>2 DEF MutexOK, Owning
<1>10. VerdictOK'
  BY <1>3 DEF VerdictOK, VerdictExact, At
<1>. QED
  BY <1>5, <1>6, <1>7, <1>8, <1>9, <1>10

-----------------------------------------------------------------------------
(* The steps of the parent that start the loops. *)

\* What a child's parameters are when the parent has set them.
LEMMA FreshParams ==
    /\ NewParams \in Params /\ NewParams.ret = UNDEF /\ NewParams.is_complete = FALSE
    /\ \A i \in 0 .. NR_MULTI_CALL_CHILD, n \in Nat :
          LET r == [NewParams EXCEPT !.child_idx = i, !.left = n]
          IN  /\ r \in Params
              /\ r.child_idx = i /\ r.left = n /\ r.calls = 0 /\ r.ret = UNDEF
              /\ r.is_complete = FALSE
<1>1. NewParams \in Params /\ NewParams.ret = UNDEF /\ NewParams.is_complete = FALSE
  BY Tasks DEF NewParams, Params
<1>2. ASSUME NEW i \in 0 .. NR_MULTI_CALL_CHILD, NEW n \in Nat
      PROVE  LET r == [NewParams EXCEPT !.child_idx = i, !.left = n]
             IN  /\ r \in Params
                 /\ r.child_idx = i /\ r.left = n /\ r.calls = 0 /\ r.ret = UNDEF
                 /\ r.is_complete = FALSE
  <2>1. ASSUME NEW q \in Params
        PROVE  LET r == [q EXCEPT !.child_idx = i, !.left = n]
               IN  /\ r \in Params
                   /\ r.child_idx = i /\ r.left = n /\ r.calls = q.calls /\ r.ret = q.ret
                   /\ r.is_complete = q.is_complete
    BY DEF Params
  <2>2. NewParams.calls = 0
    BY DEF NewParams
  <2>. QED
    BY <1>1, <2>1, <2>2
<1>. QED
  BY <1>1, <1>2

\* The value of Made at a thread.
LEMMA MadeAt ==
    ASSUME NEW t \in Task
    PROVE  /\ Made[t] = IF params[t].ret = "PASSED" THEN params[t].calls
                        ELSE IF Looping(t)
                        THEN Rounds[params[t].child_idx] - params[t].left
                               + (IF call[t] \in {"sent", "served"} THEN 1 ELSE 0)
                        ELSE 0
           /\ Made'[t] = (IF params[t].ret = "PASSED" THEN params[t].calls
                          ELSE IF Looping(t)
                          THEN Rounds[params[t].child_idx] - params[t].left
                                 + (IF call[t] \in {"sent", "served"} THEN 1 ELSE 0)
                          ELSE 0)'
BY Zenon DEF Made

\* The number of calls each task has made is a function on the tasks.
LEMMA MadeFunction ==
    /\ DOMAIN Made = Task /\ DOMAIN Made' = Task
    /\ Made = [t \in Task |-> Made[t]] /\ Made' = [t \in Task |-> Made'[t]]
BY DEF Made

\* Functions on the tasks that agree everywhere are the same.
LEMMA SameMade == ASSUME \A t \in Task : Made'[t] = Made[t] PROVE Made' = Made
<1>1. [t \in Task |-> Made'[t]] = [t \in Task |-> Made[t]]
  OBVIOUS
<1>. QED
  BY <1>1, MadeFunction, Zenon

\* The test starts with fresh parameters and statistics.
LEMMA TestStart ==
    ASSUME SInv, test_start
    PROVE  SInv'
<1>. USE DEF SInv
<1>1. PICK label \in {"create", "next"} :
        /\ pc[Parent] = "start" /\ pc' = [pc EXCEPT ![Parent] = label]
        /\ mutex' = IF label = "create" THEN [owner |-> {}] ELSE NULL
        /\ result' \in [1 .. 3 -> {"none", "PASSED", "FAILED"}]
  BY DEF test_start, At, GotoT, SuiteTypeOK, os_wrapper_mutex_create, osMutexNew
<1>2. /\ nr_tx' = 0 /\ call' = call /\ fault' = FALSE /\ idx' = 0 /\ nr_child' = 0
      /\ params' = [t \in Task |-> NewParams]
      /\ UNCHANGED <<test, its, reply>>
  BY DEF test_start, stats_reinit, ResetStats
<1>3. /\ ~Owning /\ (\A c \in Child : pc[c] = "none")
      /\ \A t \in Task : call[t] = "idle"
  BY <1>1, NoneRuns DEF Owning
<1>4. /\ pc' \in [Task -> ChildLabel \cup ParentLabel]
      /\ pc'[Parent] = label /\ label \in ParentLabel
      /\ \A c \in Child : pc'[c] = "none"
  BY <1>1, <1>3, Tasks DEF SuiteTypeOK, ParentLabel
<1>5. /\ \A t \in Task : params'[t] = NewParams /\ params'[t].ret = UNDEF
      /\ params' \in [Task -> Params]
  BY <1>2, FreshParams
<1>6. \A t \in Task : pc'[t] \notin {"wait_flag", "run", "calling"}
  BY <1>4, Tasks
<1>7. mutex' \in Mutex \cup {NULL} /\ (mutex' # NULL <=> label = "create")
      /\ (mutex' # NULL => mutex'.owner = {})
  BY <1>1, MutexKinds
<1>8. SuiteTypeOK'
  <2>0. fault' \in BOOLEAN
    BY <1>2, Zenon
  <2>1. idx' \in 0 .. RtosThreads /\ nr_child' \in 0 .. RtosThreads /\ nr_tx' \in Nat
    BY <1>2, Tasks
  <2>2. \A c \in Child : pc'[c] \in ChildLabel
    BY <1>4 DEF ChildLabel
  <2>. QED
    BY <1>1, <1>2, <1>4, <1>5, <1>7, <2>0, <2>1, <2>2 DEF SuiteTypeOK
<1>9. CallsOK'
  BY <1>2, <1>3, <1>6 DEF CallsOK
<1>10. LoopsOK'
  BY <1>5, <1>6 DEF LoopsOK, Looping, UNDEF
<1>11. ChildrenOK'
  BY <1>2, <1>4, <1>5, Tasks DEF ChildrenOK, Created
<1>12. ParentOK'
  BY <1>1, <1>4, <1>5, Tasks DEF ParentOK
<1>13. MutexOK'
  <2>1. Holding' = {}
    BY <1>1, <1>4, Tasks DEF Holding
  <2>2. Owning' \/ pc'[Parent] = "delete" <=> label = "create"
    BY <1>1, <1>4 DEF Owning
  <2>. QED
    BY <1>7, <2>1, <2>2 DEF MutexOK
<1>14. FaultOK'
  BY <1>2, <1>3, <1>5 DEF FaultOK, Failing, UNDEF
<1>15. AssetsOK'
  BY <1>6 DEF AssetsOK, Looping
<1>16. VerdictOK'
  BY <1>1, <1>4, <1>5, Tasks DEF VerdictOK, VerdictExact, At
<1>17. StatsOK'
  <2>1. ASSUME NEW t \in Task PROVE Made'[t] = 0
    BY <1>5, <1>6, MadeAt DEF UNDEF, Looping
  <2>2. Sent' = {}
    BY <2>1 DEF Sent
  <2>. QED
    BY <1>2, <2>2, FS_EmptySet DEF StatsOK
<1>. QED
  BY <1>8, <1>9, <1>10, <1>11, <1>12, <1>13, <1>14, <1>15, <1>16, <1>17

\* A thread gets its parameters and starts towards its loop.
LEMMA Joins ==
    ASSUME SInv, NEW t \in Task, NEW label \in {"wait_flag", "run"}, NEW i \in 0 .. NR_MULTI_CALL_CHILD,
           ~Looping(t), params[t].ret = UNDEF, i = IF t = Parent THEN nr_child ELSE t,
           pc' = [pc EXCEPT ![t] = label],
           params' = [params EXCEPT ![t] = [NewParams EXCEPT !.child_idx = i, !.left = NrCalls(i)]],
           UNCHANGED <<callVars, test, nr_child, its, reply, fault>>
    PROVE  /\ CallsOK' /\ LoopsOK' /\ FaultOK' /\ AssetsOK' /\ StatsOK'
           /\ params' \in [Task -> Params]
           /\ params'[t].ret = UNDEF /\ params'[t].is_complete = FALSE
<1>. USE DEF SInv
<1>1. NrCalls(i) = Rounds[i] /\ Rounds[i] \in Nat \ {0}
  BY RoundsPositive DEF Rounds
<1>2. /\ params' \in [Task -> Params]
      /\ params'[t].child_idx = i /\ params'[t].left = Rounds[i] /\ params'[t].calls = 0
      /\ params'[t].ret = UNDEF /\ params'[t].is_complete = FALSE
      /\ \A u \in Task \ {t} : params'[u] = params[u]
  <2>. DEFINE r == [NewParams EXCEPT !.child_idx = i, !.left = NrCalls(i)]
  <2>1. NrCalls(i) \in Nat
    BY <1>1
  <2>2. /\ r \in Params
        /\ r.child_idx = i /\ r.left = NrCalls(i) /\ r.calls = 0 /\ r.ret = UNDEF
        /\ r.is_complete = FALSE
    BY <2>1, FreshParams
  <2>3. params' = [params EXCEPT ![t] = r]
    OBVIOUS
  <2>. HIDE DEF r
  <2>. QED
    BY <1>1, <2>2, <2>3 DEF SuiteTypeOK
<1>3. pc'[t] = label /\ \A u \in Task \ {t} : pc'[u] = pc[u]
  BY DEF SuiteTypeOK
<1>4. Rounds' = Rounds /\ Heavy' = Heavy
  BY RoundsKept
<1>5. pc[t] # "calling" /\ call[t] = "idle"
  BY DEF CallsOK, Looping
<1>6. CallsOK'
  BY <1>3, <1>5 DEF CallsOK, callVars
<1>7. LoopsOK'
  <2>1. ASSUME NEW u \in Task, u # t
        PROVE  Looping(u)' <=> Looping(u)
    BY <1>3, <2>1 DEF Looping
  <2>. QED
    BY <1>1, <1>2, <1>4, <2>1 DEF LoopsOK, UNDEF
<1>8. FaultOK'
  <2>1. ASSUME NEW u \in Task PROVE Failing(u)' <=> Failing(u)
    <3>1. CASE u = t
      BY <1>2, <1>5, <3>1 DEF Failing, UNDEF, callVars
    <3>2. CASE u # t
      BY <1>2, <3>2 DEF Failing, callVars
    <3>. QED BY <3>1, <3>2
  <2>. QED
    BY <2>1 DEF FaultOK
<1>9. AssetsOK'
  <2>1. ASSUME NEW u \in Task, u # t
        PROVE  (Looping(u)' <=> Looping(u)) /\ Position(u)' = Position(u)
    BY <1>2, <1>3, <2>1 DEF Looping, Position
  <2>2. ASSUME i \in Heavy PROVE Position(t)' = 0
    <3>1. Rounds[i] = HeavyCalls(HeavyRounds)
      BY <2>2, RoundsPositive
    <3>2. HeavyCalls(HeavyRounds) - HeavyCalls(HeavyRounds) = 0
      BY RoundsPositive
    <3>. QED
      BY <1>2, <3>1, <3>2 DEF Position
  <2>3. call'[t] # "served"
    BY <1>5 DEF callVars
  <2>. QED
    BY <1>2, <1>4, <2>1, <2>2, <2>3 DEF AssetsOK, callVars
<1>10. StatsOK'
  <2>1. ASSUME NEW u \in Task PROVE Made'[u] = Made[u]
    <3>1. CASE u = t
      <4>1. Made[t] = 0
        BY MadeAt DEF UNDEF
      <4>2. Rounds[i] - Rounds[i] + 0 = 0
        BY <1>1
      <4>3. call'[t] = "idle" /\ Looping(t)'
        BY <1>3, <1>5 DEF callVars, Looping
      <4>4. Made'[t] = Rounds[i] - Rounds[i] + 0
        BY <1>2, <1>4, <4>3, MadeAt DEF UNDEF
      <4>. QED BY <3>1, <4>1, <4>2, <4>4
    <3>2. CASE u # t
      <4>1. /\ Looping(u)' <=> Looping(u)
            /\ params'[u] = params[u] /\ call'[u] = call[u]
        BY <1>2, <1>3, <3>2 DEF Looping, callVars
      <4>. QED
        BY <1>4, <4>1, MadeAt
    <3>. QED BY <3>1, <3>2
  <2>2. \A u \in Task : params[u].ret = "FAILED" => params'[u].ret = "FAILED"
    BY <1>2 DEF UNDEF
  <2>. QED
    BY <2>1, <2>2, SameMade, StatsFrame DEF callVars
<1>. QED
  BY <1>2, <1>6, <1>7, <1>8, <1>9, <1>10

\* The parent creates a child, or can create no more.
LEMMA CreateChild ==
    ASSUME SInv, create_child
    PROVE  SInv'
<1>. USE DEF SInv
<1>1. pc[Parent] = "create" /\ Created = idx /\ Owning
  BY DEF create_child, At, Created, Owning
<1>2. CASE /\ idx < RtosThreads
           /\ pc' = [pc EXCEPT ![idx] = "wait_flag"]
           /\ params' = [params EXCEPT ![idx] =
                 [NewParams EXCEPT !.child_idx = idx, !.left = NrCalls(idx)]]
           /\ idx' = idx + 1
           /\ UNCHANGED <<callVars, test, nr_child, mutex, its, reply, fault, result>>
  <2>1. idx \in Child /\ idx \in Task /\ idx # Parent /\ idx \in 0 .. NR_MULTI_CALL_CHILD
    BY <1>2, Tasks DEF SuiteTypeOK
  <2>2. pc[idx] = "none" /\ params[idx] = NewParams /\ ~Looping(idx)
    BY <1>1, <2>1, Tasks DEF ChildrenOK, Looping
  <2>3. /\ CallsOK' /\ LoopsOK' /\ FaultOK' /\ AssetsOK' /\ StatsOK'
        /\ params' \in [Task -> Params]
        /\ params'[idx].ret = UNDEF /\ params'[idx].is_complete = FALSE
    BY <1>2, <2>1, <2>2, FreshParams, Joins
  <2>4. /\ pc' \in [Task -> ChildLabel \cup ParentLabel]
        /\ pc'[idx] = "wait_flag" /\ \A t \in Task \ {idx} : pc'[t] = pc[t]
        /\ \A t \in Task \ {idx} : params'[t] = params[t]
    BY <1>2, <2>1 DEF SuiteTypeOK, ChildLabel
  <2>5. pc'[Parent] = "create" /\ Created' = idx + 1 /\ Owning'
    BY <1>1, <1>2, <2>1, <2>4, Tasks DEF Created, Owning
  <2>6. SuiteTypeOK'
    BY <1>1, <1>2, <2>1, <2>3, <2>4, Tasks DEF SuiteTypeOK, callVars, ChildLabel
  <2>7. ChildrenOK'
    <3>1. ASSUME NEW c \in Child, c # idx
          PROVE  /\ pc'[c] = pc[c] /\ params'[c] = params[c]
                 /\ CreatedOK(c)' <=> CreatedOK(c)
                 /\ c < Created' <=> c < Created
                 /\ c >= Created' => c >= Created
      BY <1>1, <2>1, <2>4, <2>5, <3>1, Tasks DEF CreatedOK, Looping
    <3>2. ASSUME NEW c \in Child, c = idx
          PROVE  CreatedOK(c)' /\ c < Created' /\ ~(c >= Created')
      BY <2>1, <2>3, <2>4, <2>5, <3>2, Tasks DEF CreatedOK, Looping
    <3>. QED
      BY <1>1, <2>5, <3>1, <3>2 DEF ChildrenOK
  <2>8. ParentOK'
    BY <1>1, <2>1, <2>4, <2>5, Tasks DEF ParentOK
  <2>9. MutexOK'
    <3>1. Holding' = Holding
      BY <2>1, <2>2, <2>4 DEF Holding
    <3>. QED
      BY <1>1, <1>2, <2>5, <3>1 DEF MutexOK
  <2>10. VerdictOK'
    BY <2>5 DEF VerdictOK, VerdictExact, At
  <2>. QED
    BY <2>3, <2>6, <2>7, <2>8, <2>9, <2>10
<1>3. CASE /\ nr_child' = idx /\ idx' = 0
           /\ pc' = [pc EXCEPT ![Parent] = "signal"]
           /\ UNCHANGED <<callVars, test, params, mutex, its, reply, fault, result>>
  <2>1. /\ pc' \in [Task -> ChildLabel \cup ParentLabel]
        /\ pc'[Parent] = "signal" /\ \A t \in Task \ {Parent} : pc'[t] = pc[t]
    BY <1>3, Tasks DEF SuiteTypeOK, ParentLabel
  <2>2. Quiet
    BY <1>1, <1>3, <2>1 DEF Quiet, Looping
  <2>3. CallsOK' /\ LoopsOK' /\ FaultOK' /\ AssetsOK' /\ StatsOK'
    BY <2>2, QuietStep
  <2>4. Created' = Created /\ Owning'
    BY <1>1, <1>3, <2>1 DEF Created, Owning
  <2>5. SuiteTypeOK'
    BY <1>3, <2>1, Tasks DEF SuiteTypeOK, callVars, ParentLabel
  <2>6. ChildrenOK'
    <3>1. ASSUME NEW c \in Child
          PROVE  pc'[c] = pc[c] /\ (CreatedOK(c)' <=> CreatedOK(c))
      BY <1>3, <2>1, Tasks DEF CreatedOK, Looping
    <3>. QED
      BY <1>1, <1>3, <2>1, <2>4, <3>1 DEF ChildrenOK
  <2>7. ParentOK'
    BY <1>1, <1>3, <2>1, Tasks DEF ParentOK, SuiteTypeOK
  <2>8. MutexOK'
    <3>1. Holding' = Holding
      BY <1>1, <2>1 DEF Holding
    <3>. QED
      BY <1>1, <1>3, <2>4, <3>1 DEF MutexOK
  <2>9. VerdictOK'
    BY <2>1 DEF VerdictOK, VerdictExact, At
  <2>. QED
    BY <2>3, <2>5, <2>6, <2>7, <2>8, <2>9
<1>. QED
  BY <1>2, <1>3 DEF create_child, GotoT, NrCreated

\* The parent lets all the children it has made start.
LEMMA SignalChildren ==
    ASSUME SInv, signal_children
    PROVE  SInv'
<1>. USE DEF SInv
<1>1. pc[Parent] = "signal" /\ Created = nr_child /\ Owning
  BY DEF signal_children, At, Created, Owning
<1>2. CASE /\ idx < nr_child /\ idx' = idx + 1
           /\ UNCHANGED <<callVars, pc, params, test, nr_child, mutex, its, reply, fault, result>>
  <2>1. Quiet
    BY <1>2 DEF Quiet, Looping
  <2>2. CallsOK' /\ LoopsOK' /\ FaultOK' /\ AssetsOK' /\ StatsOK'
    BY <2>1, QuietStep
  <2>3. SuiteTypeOK'
    BY <1>2, Tasks DEF SuiteTypeOK, callVars
  <2>4. Created' = Created /\ (Owning' <=> Owning) /\ Holding' = Holding
    BY <1>1, <1>2 DEF Created, Owning, Holding
  <2>5. ChildrenOK'
    BY <1>1, <1>2, <2>4 DEF ChildrenOK, CreatedOK, Looping
  <2>6. ParentOK'
    BY <1>1, <1>2, Tasks DEF ParentOK, SuiteTypeOK
  <2>7. MutexOK'
    BY <1>2, <2>4 DEF MutexOK
  <2>8. VerdictOK'
    BY <1>1, <1>2 DEF VerdictOK, VerdictExact, At
  <2>. QED
    BY <2>2, <2>3, <2>5, <2>6, <2>7, <2>8
<1>3. CASE /\ params' = [params EXCEPT ![Parent] =
                 [NewParams EXCEPT !.child_idx = nr_child, !.left = NrCalls(nr_child)]]
           /\ idx' = 0
           /\ pc' = [pc EXCEPT ![Parent] = "run"]
           /\ UNCHANGED <<callVars, test, nr_child, mutex, its, reply, fault, result>>
  <2>1. ~Looping(Parent) /\ params[Parent].ret = UNDEF /\ nr_child \in 0 .. NR_MULTI_CALL_CHILD
    BY <1>1, Tasks DEF Looping, ParentOK, SuiteTypeOK
  <2>2. /\ CallsOK' /\ LoopsOK' /\ FaultOK' /\ AssetsOK' /\ StatsOK'
        /\ params' \in [Task -> Params]
        /\ params'[Parent].ret = UNDEF
    BY <1>3, <2>1, Tasks, Joins
  <2>3. /\ pc' \in [Task -> ChildLabel \cup ParentLabel]
        /\ pc'[Parent] = "run"
        /\ \A t \in Task \ {Parent} : pc'[t] = pc[t] /\ params'[t] = params[t]
    BY <1>3, Tasks DEF SuiteTypeOK, ParentLabel
  <2>4. SuiteTypeOK'
    BY <1>3, <2>2, <2>3, Tasks DEF SuiteTypeOK, callVars, ParentLabel
  <2>5. Created' = Created /\ Owning'
    BY <1>1, <1>3, <2>3 DEF Created, Owning
  <2>6. ChildrenOK'
    <3>1. ASSUME NEW c \in Child
          PROVE  pc'[c] = pc[c] /\ params'[c] = params[c] /\ (CreatedOK(c)' <=> CreatedOK(c))
      BY <2>3, Tasks DEF CreatedOK, Looping
    <3>. QED
      BY <1>1, <2>3, <2>5, <3>1 DEF ChildrenOK
  <2>7. ParentOK'
    BY <1>3, <2>3 DEF ParentOK
  <2>8. MutexOK'
    <3>1. Holding' = Holding
      BY <1>1, <2>3 DEF Holding
    <3>. QED
      BY <1>1, <1>3, <2>5, <3>1 DEF MutexOK
  <2>9. VerdictOK'
    BY <2>3 DEF VerdictOK, VerdictExact, At
  <2>. QED
    BY <2>2, <2>4, <2>6, <2>7, <2>8, <2>9
<1>. QED
  BY <1>2, <1>3 DEF signal_children, GotoT, MoreToSignal, ParentIdx

-----------------------------------------------------------------------------
(* The calls. *)

\* Steps inside a thread's loop leave the rest of the test alone.
LoopStays(t) ==
    /\ t \in Task
    /\ pc[t] \in {"run", "calling"} /\ pc'[t] \in {"run", "calling"}
    /\ \A u \in Task \ {t} : pc'[u] = pc[u] /\ params'[u] = params[u]
    /\ pc' \in [Task -> ChildLabel \cup ParentLabel]
    /\ params' \in [Task -> Params]
    /\ params'[t].ret = params[t].ret /\ params'[t].is_complete = params[t].is_complete
    /\ call' \in [Task -> {"idle", "called", "sent", "served"}]
    /\ nr_tx' \in Nat
    /\ reply' \in [Task -> BOOLEAN]
    /\ its' \subseteq 0 .. NR_MULTI_CALL_CHILD
    /\ fault' \in BOOLEAN
    /\ UNCHANGED <<test, idx, nr_child, mutex, result>>

\* A step within a task's loop moves neither parent nor verdict.
LEMMA LoopStaysFrame ==
    ASSUME SInv, NEW t, LoopStays(t)
    PROVE  SuiteTypeOK' /\ ChildrenOK' /\ ParentOK' /\ MutexOK' /\ VerdictOK'
<1>. USE DEF SInv, LoopStays
<1>1. params[t].ret = UNDEF
  BY DEF LoopsOK, Looping
<1>2. SuiteTypeOK'
  BY Tasks DEF SuiteTypeOK, ChildLabel, ParentLabel
<1>3. /\ Owning' <=> Owning
      /\ Created' = Created
      /\ Holding' = Holding
      /\ pc[Parent] \in {"poll", "poll_read", "delete", "collect", "avg", "signal", "create", "next"}
           => t # Parent /\ pc'[Parent] = pc[Parent]
      /\ pc'[Parent] \in {"poll", "poll_read", "delete", "collect", "avg", "signal", "create", "next"}
           => t # Parent /\ pc'[Parent] = pc[Parent]
  BY Tasks DEF Owning, Created, Holding
<1>4. ChildrenOK'
  <2>1. ASSUME NEW c \in Child
        PROVE  /\ CreatedOK(c)' <=> CreatedOK(c)
               /\ pc'[c] # "none" <=> pc[c] # "none"
               /\ c # t => params'[c] = params[c]
    BY Tasks DEF CreatedOK, Looping
  <2>2. ASSUME t \in Child PROVE ~(t >= Created)
    BY <2>2, Tasks DEF ChildrenOK, Created, SuiteTypeOK
  <2>. QED
    BY <1>3, <2>1, <2>2 DEF ChildrenOK
<1>5. ParentOK'
  BY <1>3, Tasks DEF ParentOK
<1>6. MutexOK'
  BY <1>3, Tasks DEF MutexOK, Owning
<1>7. VerdictOK'
  BY <1>3, NoneRuns, Tasks DEF VerdictOK, VerdictExact, At, Owning, Looping
<1>. QED
  BY <1>2, <1>4, <1>5, <1>6, <1>7

\* A task in its loop makes its next call.
LEMMA LoopCall ==
    ASSUME SInv, NEW t \in Task, loop_call(t)
    PROVE  SInv'
<1>. USE DEF SInv
<1>1. /\ pc[t] = "run" /\ pc' = [pc EXCEPT ![t] = "calling"]
      /\ call[t] = "idle" /\ call' = [call EXCEPT ![t] = "called"]
      /\ UNCHANGED <<nr_tx, test, idx, nr_child, params, mutex, its, reply, fault, result>>
  BY DEF loop_call, At, GotoT, Begin
<1>2. /\ call'[t] = "called" /\ pc'[t] = "calling"
      /\ \A u \in Task \ {t} : call'[u] = call[u] /\ pc'[u] = pc[u]
      /\ call' \in [Task -> {"idle", "called", "sent", "served"}]
      /\ pc' \in [Task -> ChildLabel \cup ParentLabel]
  BY <1>1 DEF SuiteTypeOK, ChildLabel
<1>3. LoopStays(t)
  BY <1>1, <1>2 DEF LoopStays, SuiteTypeOK
<1>4. SuiteTypeOK' /\ ChildrenOK' /\ ParentOK' /\ MutexOK' /\ VerdictOK'
  BY <1>3, LoopStaysFrame
<1>5. Rounds' = Rounds /\ Heavy' = Heavy
  BY <1>1, RoundsKept
<1>6. \A u \in Task : Looping(u)' <=> Looping(u)
  BY <1>1, <1>2 DEF Looping
<1>7. CallsOK'
  BY <1>1, <1>2 DEF CallsOK
<1>8. LoopsOK'
  BY <1>1, <1>5, <1>6 DEF LoopsOK
<1>9. FaultOK'
  <2>1. ASSUME NEW u \in Task PROVE Failing(u)' <=> Failing(u)
    BY <1>1, <1>2 DEF Failing
  <2>. QED
    BY <1>1, <2>1 DEF FaultOK
<1>10. AssetsOK'
  BY <1>1, <1>2, <1>5, <1>6 DEF AssetsOK, Position
<1>11. StatsOK'
  <2>1. ASSUME NEW u \in Task PROVE Made'[u] = Made[u]
    <3>1. call'[u] \in {"sent", "served"} <=> call[u] \in {"sent", "served"}
      BY <1>1, <1>2
    <3>. QED
      BY <1>1, <1>5, <1>6, <3>1, MadeAt
  <2>. QED
    BY <1>1, <2>1, SameMade, StatsFrame
<1>. QED
  BY <1>4, <1>7, <1>8, <1>9, <1>10, <1>11

\* A transmission is one of a thread's calls, and one more in the statistics.
LEMMA TransmitStep ==
    ASSUME SInv, NEW t \in Task, transmit(t)
    PROVE  SInv'
<1>. USE DEF SInv
<1>1. /\ call[t] = "called" /\ call' = [call EXCEPT ![t] = "sent"]
      /\ nr_tx' = nr_tx + 1
      /\ UNCHANGED <<pc, test, idx, nr_child, params, mutex, its, reply, fault, result>>
  BY DEF transmit, Transmit, testVars
<1>2. /\ call'[t] = "sent" /\ (\A u \in Task \ {t} : call'[u] = call[u])
      /\ call' \in [Task -> {"idle", "called", "sent", "served"}]
  BY <1>1 DEF SuiteTypeOK
<1>3. pc[t] = "calling" /\ Looping(t)
  BY <1>1 DEF CallsOK, Looping
<1>4. LoopStays(t)
  BY <1>1, <1>2, <1>3 DEF LoopStays, SuiteTypeOK
<1>5. SuiteTypeOK' /\ ChildrenOK' /\ ParentOK' /\ MutexOK' /\ VerdictOK'
  BY <1>4, LoopStaysFrame
<1>6. Rounds' = Rounds /\ Heavy' = Heavy
  BY <1>1, RoundsKept
<1>7. \A u \in Task : Looping(u)' <=> Looping(u)
  BY <1>1 DEF Looping
<1>8. CallsOK'
  BY <1>1, <1>2 DEF CallsOK
<1>9. LoopsOK'
  BY <1>1, <1>6, <1>7 DEF LoopsOK
<1>10. FaultOK'
  <2>1. ASSUME NEW u \in Task PROVE Failing(u)' <=> Failing(u)
    BY <1>1, <1>2 DEF Failing
  <2>. QED
    BY <1>1, <2>1 DEF FaultOK
<1>11. AssetsOK'
  BY <1>1, <1>2, <1>6, <1>7 DEF AssetsOK, Position
<1>12. StatsOK'
  <2>. SUFFICES ASSUME \A u \in Task : params[u].ret # "FAILED"
                PROVE  IsFiniteSet(Sent') /\ nr_tx' = Cardinality(Sent')
    BY <1>1 DEF StatsOK
  <2>1. IsFiniteSet(Sent) /\ nr_tx = Cardinality(Sent)
    BY DEF StatsOK
  <2>. DEFINE made == Made[t]
  <2>2. params[t].ret = UNDEF /\ made \in Nat /\ Made'[t] = made + 1
    <3>1. /\ params[t].ret = UNDEF /\ params[t].child_idx \in 0 .. NR_MULTI_CALL_CHILD
          /\ params[t].left \in 1 .. Rounds[params[t].child_idx]
      BY <1>3, Tasks DEF LoopsOK, SuiteTypeOK
    <3>2. Rounds[params[t].child_idx] \in Nat
      BY <3>1, RoundsPositive
    <3>3. made = Rounds[params[t].child_idx] - params[t].left + 0
      BY <1>1, <1>3, <3>1, MadeAt DEF UNDEF
    <3>4. Made'[t] = Rounds[params[t].child_idx] - params[t].left + 1
      BY <1>1, <1>2, <1>3, <1>6, <1>7, <3>1, MadeAt DEF UNDEF
    <3>. HIDE DEF made
    <3>. QED
      BY <3>1, <3>2, <3>3, <3>4
  <2>3. ASSUME NEW u \in Task, u # t PROVE Made'[u] = Made[u]
    BY <1>1, <1>2, <1>6, <1>7, <2>3, MadeAt
  <2>4. <<t, made>> \notin Sent
    BY <2>2 DEF Sent
  <2>. HIDE DEF made
  <2>5. ASSUME NEW u \in Task, NEW k \in Nat
        PROVE  <<u, k>> \in Sent' <=> <<u, k>> \in Sent \cup {<<t, made>>}
    <3>1. CASE u = t
      <4>1. k < made + 1 <=> k < made \/ k = made
        BY <2>2
      <4>. QED
        BY <2>2, <3>1, <4>1 DEF Sent, made
    <3>2. CASE u # t
      BY <2>3, <3>2 DEF Sent
    <3>. QED BY <3>1, <3>2
  <2>6. Sent' = Sent \cup {<<t, made>>}
    <3>1. Sent \subseteq Task \X Nat /\ Sent' \subseteq Task \X Nat /\ <<t, made>> \in Task \X Nat
      BY <2>2 DEF Sent
    <3>2. ASSUME NEW p \in Task \X Nat PROVE p \in Sent' <=> p \in Sent \cup {<<t, made>>}
      <4>1. PICK u \in Task, k \in Nat : p = <<u, k>>
        OBVIOUS
      <4>. QED
        BY <2>5, <4>1
    <3>. QED
      BY <3>1, <3>2
  <2>7. IsFiniteSet(Sent \cup {<<t, made>>})
        /\ Cardinality(Sent \cup {<<t, made>>}) = Cardinality(Sent) + 1
    BY <2>1, <2>4, FS_AddElement
  <2>8. IsFiniteSet(Sent') /\ Cardinality(Sent') = Cardinality(Sent) + 1
    BY <2>6, <2>7, Zenon
  <2>. QED
    BY <1>1, <2>1, <2>8
<1>. QED
  BY <1>5, <1>8, <1>9, <1>10, <1>11, <1>12

\* Two threads in their loops have different indices, and so different assets.
LEMMA OwnAsset ==
    ASSUME SInv, NEW t \in Task, NEW u \in Task, t # u, Looping(t), Looping(u)
    PROVE  params[t].child_idx # params[u].child_idx
<1>. USE DEF SInv
<1>1. ASSUME NEW c \in Child, Looping(c), Looping(Parent) PROVE c # nr_child
  <2>1. c < Created /\ Created = nr_child
    BY <1>1 DEF ChildrenOK, Created, Looping
  <2>. QED
    BY <2>1, Tasks
<1>. QED
  BY <1>1, Tasks DEF LoopsOK

\* The service answers a task's call.
LEMMA ServeStep ==
    ASSUME SInv, NEW t \in Task, serve(t)
    PROVE  SInv'
<1>. USE DEF SInv
<1>. DEFINE uid == params[t].child_idx
<1>1. /\ call[t] = "sent" /\ call' = [call EXCEPT ![t] = "served"]
      /\ UNCHANGED <<nr_tx, pc, test, idx, nr_child, params, mutex, result>>
  BY DEF serve, Serve
<1>2. /\ call'[t] = "served" /\ (\A u \in Task \ {t} : call'[u] = call[u])
      /\ call' \in [Task -> {"idle", "called", "sent", "served"}]
  BY <1>1 DEF SuiteTypeOK
<1>3. pc[t] = "calling" /\ Looping(t)
  BY <1>1 DEF CallsOK, Looping
<1>4. /\ uid \in 0 .. NR_MULTI_CALL_CHILD /\ params[t].ret = UNDEF
      /\ params[t].left \in 1 .. Rounds[uid]
  BY <1>3, Tasks DEF LoopsOK, SuiteTypeOK
<1>5. uid \in Heavy => Position(t) \in {0, 1, 2}
  <2>1. ASSUME uid \in Heavy
        PROVE  /\ HeavyCalls(HeavyRounds) \in Nat /\ params[t].left \in Nat
               /\ params[t].left <= HeavyCalls(HeavyRounds)
    BY <1>4, <2>1, RoundsPositive
  <2>. QED
    BY <2>1 DEF Position
<1>6. \E ok \in BOOLEAN :
        /\ reply' = [reply EXCEPT ![t] = ok]
        /\ ok => /\ UNCHANGED fault
                 /\ uid \in Heavy /\ Position(t) # 2 => uid \in its'
                 /\ \A i \in its : i # uid => i \in its'
        /\ ~ok => fault' = TRUE /\ UNCHANGED its
        /\ its' \subseteq its \cup {uid}
  <2>. DEFINE step == <<"set", "get", "remove">>[Position(t) + 1]
              served == ~IsHeavy(uid) \/ step = "set" \/ uid \in its
  <2>1. IsHeavy(uid) <=> uid \in Heavy
    BY <1>4 DEF Heavy
  <2>2. \/ /\ reply' = [reply EXCEPT ![t] = served]
           /\ its' = IF IsHeavy(uid) /\ step = "set" THEN its \cup {uid}
                     ELSE IF IsHeavy(uid) /\ step = "remove" THEN its \ {uid} ELSE its
           /\ UNCHANGED fault
        \/ /\ reply' = [reply EXCEPT ![t] = FALSE]
           /\ fault' = TRUE
           /\ UNCHANGED its
    BY DEF serve, Position
  <2>3. uid \in Heavy => /\ Position(t) = 0 => step = "set"
                         /\ Position(t) = 1 => step = "get"
                         /\ Position(t) = 2 => step = "remove"
    <3>. HIDE DEF uid
    <3>. QED OBVIOUS
  <2>4. uid \in Heavy /\ Position(t) # 0 => uid \in its
    BY <1>1, <1>3 DEF AssetsOK
  <2>5. served
    BY <1>5, <2>1, <2>3, <2>4
  <2>. HIDE DEF step, served, uid
  <2>6. CASE /\ reply' = [reply EXCEPT ![t] = served]
             /\ its' = IF IsHeavy(uid) /\ step = "set" THEN its \cup {uid}
                       ELSE IF IsHeavy(uid) /\ step = "remove" THEN its \ {uid} ELSE its
             /\ UNCHANGED fault
    <3>1. uid \in Heavy /\ Position(t) # 2 => uid \in its'
      BY <1>5, <2>1, <2>3, <2>4, <2>6
    <3>2. (\A i \in its : i # uid => i \in its') /\ its' \subseteq its \cup {uid}
      BY <2>6
    <3>3. served = TRUE
      BY <2>5, Zenon DEF served
    <3>4. reply' = [reply EXCEPT ![t] = TRUE]
      BY <2>6, <3>3, Zenon
    <3>. QED
      BY <2>6, <3>1, <3>2, <3>4
  <2>7. CASE /\ reply' = [reply EXCEPT ![t] = FALSE]
             /\ fault' = TRUE
             /\ UNCHANGED its
    BY <2>7
  <2>. QED
    BY <2>2, <2>6, <2>7
<1>7. PICK ok \in BOOLEAN :
        /\ reply' = [reply EXCEPT ![t] = ok]
        /\ ok => /\ UNCHANGED fault
                 /\ uid \in Heavy /\ Position(t) # 2 => uid \in its'
                 /\ \A i \in its : i # uid => i \in its'
        /\ ~ok => fault' = TRUE /\ UNCHANGED its
        /\ its' \subseteq its \cup {uid}
  BY <1>6
<1>8. /\ reply' \in [Task -> BOOLEAN] /\ reply'[t] = ok
      /\ \A u \in Task \ {t} : reply'[u] = reply[u]
  BY <1>7 DEF SuiteTypeOK
<1>9. fault' \in BOOLEAN /\ its' \subseteq 0 .. NR_MULTI_CALL_CHILD
  BY <1>4, <1>7 DEF SuiteTypeOK
<1>10. LoopStays(t)
  BY <1>1, <1>2, <1>3, <1>8, <1>9 DEF LoopStays, SuiteTypeOK
<1>11. SuiteTypeOK' /\ ChildrenOK' /\ ParentOK' /\ MutexOK' /\ VerdictOK'
  BY <1>10, LoopStaysFrame
<1>12. Rounds' = Rounds /\ Heavy' = Heavy
  BY <1>1, RoundsKept
<1>13. \A u \in Task : (Looping(u)' <=> Looping(u)) /\ Position(u)' = Position(u)
  BY <1>1 DEF Looping, Position
<1>14. CallsOK'
  BY <1>1, <1>2, <1>8 DEF CallsOK
<1>15. LoopsOK'
  BY <1>1, <1>12, <1>13 DEF LoopsOK
<1>16. FaultOK'
  <2>1. ASSUME NEW u \in Task, u # t PROVE Failing(u)' <=> Failing(u)
    BY <1>1, <1>2, <1>8, <2>1 DEF Failing
  <2>2. ~Failing(t) /\ (Failing(t)' <=> ~ok)
    BY <1>1, <1>2, <1>4, <1>8 DEF Failing, UNDEF
  <2>3. CASE ok
    BY <1>7, <2>1, <2>2, <2>3 DEF FaultOK
  <2>4. CASE ~ok
    BY <1>7, <2>2, <2>4 DEF FaultOK
  <2>. QED BY <2>3, <2>4
<1>17. AssetsOK'
  <2>1. ASSUME NEW u \in Task, u # t, Looping(u) PROVE params[u].child_idx # uid
    BY <1>3, <2>1, OwnAsset
  <2>. HIDE DEF uid
  <2>2. ASSUME NEW u \in Task, u # t, Looping(u), params[u].child_idx \in its
        PROVE  params[u].child_idx \in its'
    BY <1>7, <2>1, <2>2
  <2>3. ASSUME NEW u \in Task, Looping(u)', (params[u].child_idx \in Heavy)'
        PROVE  /\ call'[u] # "served" /\ Position(u)' # 0 => (params[u].child_idx \in its)'
               /\ call'[u] = "served" /\ reply'[u] /\ Position(u)' # 2 => (params[u].child_idx \in its)'
    <3>1. params' = params /\ Looping(u) /\ params[u].child_idx \in Heavy /\ Position(u)' = Position(u)
      BY <1>1, <1>12, <1>13, <2>3
    <3>2. CASE u # t
      BY <1>2, <1>8, <2>2, <3>1, <3>2 DEF AssetsOK
    <3>3. CASE u = t
      BY <1>2, <1>7, <1>8, <3>1, <3>3 DEF uid
    <3>. QED BY <3>2, <3>3
  <2>. QED
    BY <2>3 DEF AssetsOK
<1>18. StatsOK'
  <2>1. ASSUME NEW u \in Task PROVE Made'[u] = Made[u]
    <3>1. call'[u] \in {"sent", "served"} <=> call[u] \in {"sent", "served"}
      BY <1>1, <1>2
    <3>. QED
      BY <1>1, <1>12, <1>13, <3>1, MadeAt
  <2>. QED
    BY <1>1, <2>1, SameMade, StatsFrame
<1>. QED
  BY <1>11, <1>14, <1>15, <1>16, <1>17, <1>18

\* The end of a loop, with its verdict.
LEMMA LoopEnds ==
    ASSUME SInv, NEW t \in Task, pc[t] = "calling", call[t] = "served",
           NEW verdict \in {"PASSED", "FAILED"}, NEW r \in Params,
           r.child_idx = params[t].child_idx, r.ret = verdict, r.is_complete = params[t].is_complete,
           verdict = "PASSED" => /\ reply[t] /\ params[t].left = 1
                                 /\ r.calls = Rounds[params[t].child_idx],
           verdict = "FAILED" => ~reply[t],
           params' = [params EXCEPT ![t] = r],
           pc' = [pc EXCEPT ![t] = AfterLoop(t)],
           call' = [call EXCEPT ![t] = "idle"],
           reply' = [reply EXCEPT ![t] = FALSE],
           UNCHANGED <<nr_tx, test, idx, nr_child, mutex, its, fault, result>>
    PROVE  SInv'
<1>. USE DEF SInv
<1>1. Looping(t) /\ params[t].ret = UNDEF /\ params[t].child_idx \in 0 .. NR_MULTI_CALL_CHILD
      /\ Rounds[params[t].child_idx] \in Nat \ {0}
  BY RoundsPositive, Tasks DEF Looping, LoopsOK, SuiteTypeOK
<1>2. /\ params'[t] = r /\ params' \in [Task -> Params]
      /\ call'[t] = "idle" /\ call' \in [Task -> {"idle", "called", "sent", "served"}]
      /\ reply'[t] = FALSE /\ reply' \in [Task -> BOOLEAN]
      /\ \A u \in Task \ {t} :
            params'[u] = params[u] /\ pc'[u] = pc[u] /\ call'[u] = call[u] /\ reply'[u] = reply[u]
  BY DEF SuiteTypeOK
<1>3. /\ pc'[t] = IF t = Parent THEN "poll" ELSE "done_lock"
      /\ pc' \in [Task -> ChildLabel \cup ParentLabel]
  BY DEF SuiteTypeOK, ChildLabel, ParentLabel, AfterLoop
<1>4. SuiteTypeOK'
  BY <1>2, <1>3, Tasks DEF SuiteTypeOK, ChildLabel, ParentLabel
<1>5. Rounds' = Rounds /\ Heavy' = Heavy
  BY RoundsKept
<1>6. ~Looping(t)' /\ \A u \in Task \ {t} : Looping(u)' <=> Looping(u)
  BY <1>2, <1>3 DEF Looping
<1>7. CallsOK'
  BY <1>2, <1>3 DEF CallsOK
<1>8. LoopsOK'
  BY <1>1, <1>2, <1>5, <1>6 DEF LoopsOK
<1>9. Owning /\ Owning' /\ Created' = Created /\ (t = Parent => idx = 0)
  BY <1>2, <1>3, Tasks DEF Owning, Created, ChildrenOK, ParentOK
<1>10. ChildrenOK'
  <2>1. ASSUME NEW c \in Child, c # t
        PROVE  /\ pc'[c] = pc[c] /\ params'[c] = params[c]
               /\ CreatedOK(c)' <=> CreatedOK(c)
               /\ pc[c] # "none" /\ pc'[Parent] \in {"poll", "poll_read"} => idx <= c
    <3>1. CASE t = Parent
      BY <1>2, <1>9, <2>1, <3>1, Tasks DEF CreatedOK, Looping
    <3>2. CASE t # Parent
      BY <1>2, <2>1, <3>2, Tasks DEF CreatedOK, Looping, ChildrenOK
    <3>. QED BY <3>1, <3>2
  <2>2. ASSUME t \in Child
        PROVE  /\ CreatedOK(t)' /\ t < Created /\ ~(t >= Created)
               /\ pc[Parent] \in {"poll", "poll_read"} => idx <= t
               /\ pc'[Parent] = pc[Parent]
    <3>1. t < Created /\ CreatedOK(t) /\ (pc[Parent] \in {"poll", "poll_read"} => idx <= t)
      BY <2>2 DEF ChildrenOK
    <3>2. ~(t >= Created)
      BY <2>2, <3>1, Tasks DEF Created, SuiteTypeOK
    <3>3. pc'[t] = "done_lock" /\ params'[t].ret # UNDEF /\ ~params'[t].is_complete
      BY <1>2, <1>3, <2>2, <3>1, Tasks DEF CreatedOK, UNDEF
    <3>. QED
      BY <1>2, <2>2, <3>1, <3>2, <3>3, Tasks DEF CreatedOK, Looping
  <2>. QED
    BY <1>9, <2>1, <2>2 DEF ChildrenOK
<1>11. ParentOK'
  <2>1. CASE t = Parent
    BY <1>2, <1>3, <1>9, <2>1, Tasks DEF ParentOK, UNDEF, SuiteTypeOK
  <2>2. CASE t # Parent
    BY <1>2, <2>2, Tasks DEF ParentOK
  <2>. QED BY <2>1, <2>2
<1>12. MutexOK'
  <2>1. Holding' = Holding
    BY <1>2, <1>3 DEF Holding
  <2>. QED
    BY <1>9, <2>1 DEF MutexOK
<1>13. FaultOK'
  <2>1. ASSUME NEW u \in Task PROVE Failing(u)' <=> Failing(u)
    <3>1. CASE u = t
      BY <1>1, <1>2, <3>1 DEF Failing, UNDEF
    <3>2. CASE u # t
      BY <1>2, <3>2 DEF Failing
    <3>. QED BY <3>1, <3>2
  <2>. QED
    BY <2>1 DEF FaultOK
<1>14. AssetsOK'
  <2>1. ASSUME NEW u \in Task, u # t PROVE Position(u)' = Position(u)
    BY <1>2, <2>1 DEF Position
  <2>. QED
    BY <1>2, <1>5, <1>6, <2>1 DEF AssetsOK
<1>15. VerdictOK'
  BY <1>9 DEF VerdictOK, VerdictExact, At, Owning
<1>16. StatsOK'
  <2>1. CASE verdict = "FAILED"
    BY <1>2, <2>1 DEF StatsOK
  <2>2. CASE verdict = "PASSED"
    <3>1. Made[t] = Rounds[params[t].child_idx] - params[t].left + 1
      BY <1>1, MadeAt DEF UNDEF
    <3>2. Made'[t] = r.calls
      BY <1>2, <2>2, MadeAt
    <3>3. ASSUME NEW u \in Task PROVE Made'[u] = Made[u]
      <4>1. CASE u = t
        BY <1>1, <2>2, <3>1, <3>2, <4>1
      <4>2. CASE u # t
        BY <1>2, <1>5, <1>6, <4>2, MadeAt
      <4>. QED BY <4>1, <4>2
    <3>4. \A u \in Task : params[u].ret = "FAILED" => params'[u].ret = "FAILED"
      BY <1>1, <1>2 DEF UNDEF
    <3>. QED
      BY <3>3, <3>4, SameMade, StatsFrame
  <2>. QED BY <2>1, <2>2
<1>. QED
  BY <1>4, <1>7, <1>8, <1>10, <1>11, <1>12, <1>13, <1>14, <1>15, <1>16

\* A call returns and the task's loop goes round again.
LEMMA LoopAgain ==
    ASSUME SInv, NEW t \in Task, pc[t] = "calling", call[t] = "served", reply[t],
           params[t].left > 1, loop_again(t),
           call' = [call EXCEPT ![t] = "idle"],
           reply' = [reply EXCEPT ![t] = FALSE],
           UNCHANGED <<nr_tx, test, idx, nr_child, mutex, its, fault, result>>
    PROVE  SInv'
<1>. USE DEF SInv
<1>. DEFINE uid == params[t].child_idx
            left == params[t].left
<1>1. /\ Looping(t) /\ params[t].ret = UNDEF /\ uid \in 0 .. NR_MULTI_CALL_CHILD
      /\ left \in 1 .. Rounds[uid] /\ Rounds[uid] \in Nat
  BY RoundsPositive, Tasks DEF Looping, LoopsOK, SuiteTypeOK
<1>2. /\ params'[t].child_idx = uid /\ params'[t].left = left - 1
      /\ params'[t].calls = params[t].calls /\ params'[t].ret = UNDEF
      /\ params'[t].is_complete = params[t].is_complete
      /\ params' \in [Task -> Params]
      /\ \A u \in Task \ {t} : params'[u] = params[u]
  <2>1. params[t] \in Params /\ left \in Nat \ {0} /\ left - 1 \in Nat
    BY <1>1 DEF SuiteTypeOK
  <2>2. params' = [params EXCEPT ![t] = [params[t] EXCEPT !.left = params[t].left - 1]]
    BY DEF loop_again
  <2>3. ASSUME NEW q \in Params, NEW n \in Nat
        PROVE  LET r == [q EXCEPT !.left = n]
               IN  /\ r \in Params /\ r.left = n
                   /\ r.child_idx = q.child_idx /\ r.calls = q.calls /\ r.ret = q.ret
                   /\ r.is_complete = q.is_complete
    BY DEF Params
  <2>. QED
    BY <1>1, <2>1, <2>2, <2>3 DEF SuiteTypeOK
<1>3. /\ pc'[t] = "run" /\ pc' \in [Task -> ChildLabel \cup ParentLabel]
      /\ call'[t] = "idle" /\ call' \in [Task -> {"idle", "called", "sent", "served"}]
      /\ reply'[t] = FALSE /\ reply' \in [Task -> BOOLEAN]
      /\ \A u \in Task \ {t} : pc'[u] = pc[u] /\ call'[u] = call[u] /\ reply'[u] = reply[u]
  BY DEF SuiteTypeOK, loop_again, GotoT, ChildLabel
<1>4. LoopStays(t)
  BY <1>1, <1>2, <1>3 DEF LoopStays, SuiteTypeOK
<1>5. SuiteTypeOK' /\ ChildrenOK' /\ ParentOK' /\ MutexOK' /\ VerdictOK'
  BY <1>4, LoopStaysFrame
<1>6. Rounds' = Rounds /\ Heavy' = Heavy
  BY RoundsKept
<1>7. \A u \in Task : Looping(u)' <=> Looping(u)
  BY <1>1, <1>3 DEF Looping
<1>8. CallsOK'
  BY <1>3 DEF CallsOK
<1>9. LoopsOK'
  <2>1. left - 1 \in 1 .. Rounds[uid]
    BY <1>1
  <2>. QED
    BY <1>1, <1>2, <1>6, <1>7, <2>1 DEF LoopsOK, UNDEF
<1>10. FaultOK'
  <2>1. ASSUME NEW u \in Task PROVE Failing(u)' <=> Failing(u)
    BY <1>1, <1>2, <1>3 DEF Failing, UNDEF
  <2>. QED
    BY <2>1 DEF FaultOK
<1>11. AssetsOK'
  <2>1. ASSUME NEW u \in Task, u # t PROVE Position(u)' = Position(u)
    BY <1>2, <2>1 DEF Position
  <2>2. ASSUME uid \in Heavy, Position(t)' # 0 PROVE uid \in its
    <3>1. /\ HeavyCalls(HeavyRounds) \in Nat /\ HeavyCalls(HeavyRounds) % 3 = 0
          /\ left \in Nat /\ left > 1 /\ left <= HeavyCalls(HeavyRounds)
      BY <1>1, <2>2, RoundsPositive
    <3>2. Position(t)' = (HeavyCalls(HeavyRounds) - (left - 1)) % 3
          /\ Position(t) = (HeavyCalls(HeavyRounds) - left) % 3
      BY <1>2 DEF Position
    <3>3. Position(t) # 2
      BY <2>2, <3>1, <3>2, NextPosition
    <3>. QED
      BY <1>1, <2>2, <3>3 DEF AssetsOK
  <2>. QED
    BY <1>2, <1>3, <1>6, <1>7, <2>1, <2>2 DEF AssetsOK
<1>12. StatsOK'
  <2>1. Made[t] = Rounds[uid] - left + 1
    BY <1>1, MadeAt DEF UNDEF
  <2>2. Made'[t] = Rounds[uid] - (left - 1) + 0
    BY <1>1, <1>2, <1>3, <1>6, <1>7, MadeAt DEF UNDEF
  <2>. HIDE DEF uid, left
  <2>3. Made'[t] = Made[t]
    BY <1>1, <2>1, <2>2
  <2>4. ASSUME NEW u \in Task, u # t PROVE Made'[u] = Made[u]
    BY <1>2, <1>3, <1>6, <1>7, <2>4, MadeAt
  <2>5. \A u \in Task : params[u].ret = "FAILED" => params'[u].ret = "FAILED"
    BY <1>1, <1>2 DEF UNDEF
  <2>. QED
    BY <2>3, <2>4, <2>5, SameMade, StatsFrame
<1>. QED
  BY <1>5, <1>8, <1>9, <1>10, <1>11, <1>12

\* A call returns to the task's loop, with the answer the secure side gave.
LEMMA LoopReturn ==
    ASSUME SInv, NEW t \in Task, loop_return(t)
    PROVE  SInv'
<1>. USE DEF SInv
<1>1. /\ pc[t] = "calling" /\ call[t] = "served"
      /\ call' = [call EXCEPT ![t] = "idle"]
      /\ reply' = [reply EXCEPT ![t] = FALSE]
      /\ UNCHANGED <<nr_tx, test, idx, nr_child, mutex, its, fault, result>>
  BY DEF loop_return, At, Return
<1>2. /\ params[t] \in Params /\ params \in [Task -> Params] /\ reply[t] \in BOOLEAN
      /\ params[t].child_idx \in 0 .. NR_MULTI_CALL_CHILD
      /\ params[t].left \in 1 .. Rounds[params[t].child_idx]
      /\ NrCalls(params[t].child_idx) = Rounds[params[t].child_idx]
      /\ Rounds[params[t].child_idx] \in Nat
  BY <1>1, RoundsPositive, Tasks DEF LoopsOK, Looping, SuiteTypeOK, Rounds
<1>3. ASSUME NEW verdict \in {"PASSED", "FAILED"}, NEW n \in Nat
      PROVE  LET r == [params[t] EXCEPT !.left = 0, !.ret = verdict, !.calls = n]
             IN  /\ r \in Params /\ r.child_idx = params[t].child_idx /\ r.ret = verdict
                 /\ r.is_complete = params[t].is_complete /\ r.calls = n
                 /\ [params EXCEPT ![t].left = 0, ![t].ret = verdict, ![t].calls = n]
                      = [params EXCEPT ![t] = r]
  <2>1. ASSUME NEW q \in Params
        PROVE  LET r == [q EXCEPT !.left = 0, !.ret = verdict, !.calls = n]
               IN  /\ r \in Params /\ r.child_idx = q.child_idx /\ r.ret = verdict
                   /\ r.is_complete = q.is_complete /\ r.calls = n
    BY DEF Params
  <2>2. [params EXCEPT ![t].left = 0, ![t].ret = verdict, ![t].calls = n]
          = [params EXCEPT ![t] = [params[t] EXCEPT !.left = 0, !.ret = verdict, !.calls = n]]
    BY <1>2
  <2>. QED
    BY <1>2, <2>1, <2>2
<1>4. CASE ~reply[t]
  <2>. DEFINE r == [params[t] EXCEPT !.left = 0, !.ret = "FAILED", !.calls = params[t].calls]
  <2>1. loop_end(t, "FAILED")
    BY <1>4 DEF loop_return, loop_next
  <2>2. params[t].calls \in Nat
    BY <1>2 DEF Params
  <2>3. params' = [params EXCEPT ![t].left = 0, ![t].ret = "FAILED", ![t].calls = params[t].calls]
    BY <1>2, <2>1 DEF loop_end
  <2>4. /\ r \in Params /\ r.child_idx = params[t].child_idx /\ r.ret = "FAILED"
        /\ r.is_complete = params[t].is_complete
        /\ params' = [params EXCEPT ![t] = r]
    BY <1>3, <2>2, <2>3
  <2>5. pc' = [pc EXCEPT ![t] = AfterLoop(t)]
    BY <2>1 DEF loop_end, GotoT
  <2>. HIDE DEF r
  <2>. QED
    BY <1>1, <1>4, <2>4, <2>5, LoopEnds
<1>5. CASE reply[t] /\ params[t].left > 1
  <2>1. loop_again(t)
    BY <1>5 DEF loop_return, loop_next
  <2>. QED
    BY <1>1, <1>5, <2>1, LoopAgain
<1>6. CASE reply[t] /\ ~(params[t].left > 1)
  <2>. DEFINE n == Rounds[params[t].child_idx]
              r == [params[t] EXCEPT !.left = 0, !.ret = "PASSED", !.calls = n]
  <2>1. loop_end(t, "PASSED")
    BY <1>6 DEF loop_return, loop_next
  <2>2. params[t].left = 1
    BY <1>2, <1>6
  <2>3. params' = [params EXCEPT ![t].left = 0, ![t].ret = "PASSED", ![t].calls = n]
    BY <1>2, <2>1 DEF loop_end
  <2>4. /\ r \in Params /\ r.child_idx = params[t].child_idx /\ r.ret = "PASSED"
        /\ r.is_complete = params[t].is_complete /\ r.calls = n
        /\ params' = [params EXCEPT ![t] = r]
    BY <1>2, <1>3, <2>3
  <2>5. pc' = [pc EXCEPT ![t] = AfterLoop(t)]
    BY <2>1 DEF loop_end, GotoT
  <2>. HIDE DEF r
  <2>. QED
    BY <1>1, <1>6, <2>2, <2>4, <2>5, LoopEnds
<1>. QED
  BY <1>2, <1>4, <1>5, <1>6

-----------------------------------------------------------------------------
(* The invariant holds. *)

\* The invariant holds at the suite's start.
LEMMA InitSInv == Init => SInv
<1>. SUFFICES ASSUME Init PROVE SInv
  OBVIOUS
<1>1. /\ call = [t \in Task |-> "idle"] /\ nr_tx = 0
      /\ test = 1 /\ pc = [t \in Task |-> IF t = Parent THEN "start" ELSE "none"]
      /\ idx = 0 /\ nr_child = 0 /\ params = [t \in Task |-> NewParams]
      /\ mutex = NULL /\ its = {} /\ reply = [t \in Task |-> FALSE] /\ fault = FALSE
      /\ result \in [1 .. 3 -> {"none", "PASSED", "FAILED"}]
  BY DEF Init, CallInit, Tests
<1>2. /\ pc[Parent] = "start" /\ (\A c \in Child : pc[c] = "none")
      /\ pc \in [Task -> ChildLabel \cup ParentLabel]
  BY <1>1, Tasks DEF ChildLabel, ParentLabel
<1>3. \A t \in Task : pc[t] \in {"start", "none"} /\ call[t] = "idle" /\ ~reply[t]
  BY <1>1
<1>4. (\A t \in Task : params[t] = NewParams /\ params[t].ret = UNDEF) /\ params \in [Task -> Params]
  BY <1>1, FreshParams
<1>5. SuiteTypeOK
  <2>1. fault \in BOOLEAN
    BY <1>1, Zenon
  <2>2. reply \in [Task -> BOOLEAN]
    <3>1. FALSE \in BOOLEAN
      OBVIOUS
    <3>. QED
      BY <1>1, <3>1, Zenon
  <2>3. /\ call \in [Task -> {"idle", "called", "sent", "served"}]
        /\ nr_tx \in Nat /\ test \in 1 .. 3 /\ idx \in 0 .. RtosThreads /\ nr_child \in 0 .. RtosThreads
        /\ mutex \in Mutex \cup {NULL} /\ its \subseteq 0 .. NR_MULTI_CALL_CHILD
    BY <1>1, Tasks
  <2>4. pc[Parent] \in ParentLabel /\ \A c \in Child : pc[c] \in ChildLabel
    BY <1>2 DEF ChildLabel, ParentLabel
  <2>. QED
    BY <1>1, <1>2, <1>4, <2>1, <2>2, <2>3, <2>4 DEF SuiteTypeOK
<1>6. CallsOK
  BY <1>3 DEF CallsOK
<1>7. \A t \in Task : ~Looping(t)
  BY <1>3 DEF Looping
<1>8. LoopsOK
  BY <1>4, <1>7 DEF LoopsOK, UNDEF
<1>9. ChildrenOK
  BY <1>1, <1>2, <1>4, Tasks DEF ChildrenOK, Created
<1>10. ParentOK
  BY <1>2 DEF ParentOK
<1>11. MutexOK
  <2>1. Holding = {}
    BY <1>3 DEF Holding
  <2>. QED
    BY <1>1, <1>2, <2>1 DEF MutexOK, Owning
<1>12. FaultOK
  BY <1>1, <1>3, <1>4 DEF FaultOK, Failing, UNDEF
<1>13. AssetsOK
  BY <1>7 DEF AssetsOK
<1>14. VerdictOK
  BY <1>2 DEF VerdictOK, VerdictExact, At
<1>15. StatsOK
  <2>1. \A t \in Task : Made[t] = 0
    BY <1>4, <1>7, MadeAt DEF UNDEF
  <2>2. Sent = {}
    BY <2>1 DEF Sent
  <2>. QED
    BY <1>1, <2>2, FS_EmptySet DEF StatsOK
<1>. QED
  BY <1>5, <1>6, <1>8, <1>9, <1>10, <1>11, <1>12, <1>13, <1>14, <1>15 DEF SInv

\* A step that changes nothing.
LEMMA Stutter == ASSUME SInv, UNCHANGED vars PROVE SInv'
<1>. USE DEF SInv
<1>1. UNCHANGED <<call, nr_tx, test, pc, idx, nr_child, params, mutex, its, reply, fault, result>>
  BY DEF vars, callVars, testVars
<1>2. Quiet
  BY <1>1 DEF Quiet, Looping, callVars
<1>3. CallsOK' /\ LoopsOK' /\ FaultOK' /\ AssetsOK' /\ StatsOK'
  BY <1>2, QuietStep
<1>4. SuiteTypeOK'
  BY <1>1 DEF SuiteTypeOK
<1>5. ChildrenOK' /\ ParentOK'
  BY <1>1 DEF ChildrenOK, ParentOK, CreatedOK, Created, Owning, Looping
<1>6. MutexOK'
  <2>1. Holding' = Holding /\ (Owning' <=> Owning)
    BY <1>1 DEF Holding, Owning
  <2>. QED
    BY <1>1, <2>1 DEF MutexOK
<1>7. VerdictOK'
  BY <1>1 DEF VerdictOK, VerdictExact, At, Runners
<1>. QED
  BY <1>3, <1>4, <1>5, <1>6, <1>7

\* Every step of the suite, with the mailbox it calls, keeps the invariant.
LEMMA NextSInv == SInv /\ [Next]_vars => SInv'
<1>. SUFFICES ASSUME SInv, [Next]_vars PROVE SInv'
  OBVIOUS
<1>1. ASSUME NEW t \in Task, ThreadStep(t) PROVE SInv'
  <2>1. CASE loop_call(t)
    BY <2>1, LoopCall
  <2>2. CASE loop_return(t)
    BY <2>2, LoopReturn
  <2>3. CASE t \in Child /\ (wait_start(t) \/ done_lock(t) \/ done_set(t) \/ done_release(t))
    BY <2>3, WaitStart, DoneLock, DoneSet, DoneRelease
  <2>4. CASE \/ test_start \/ create_child \/ signal_children \/ poll_lock \/ poll_read
             \/ delete_mutex \/ collect \/ report \/ next_test
    BY <2>4, TestStart, CreateChild, SignalChildren, PollLock, PollRead, DeleteMutex, Collect,
       ReportStep, NextTest
  <2>. QED
    BY <1>1, <2>1, <2>2, <2>3, <2>4 DEF ThreadStep
<1>2. ASSUME NEW t \in Task, transmit(t) \/ serve(t) PROVE SInv'
  BY <1>2, TransmitStep, ServeStep
<1>3. CASE Finished \/ UNCHANGED vars
  BY <1>3, Stutter DEF Finished
<1>. QED
  BY <1>1, <1>2, <1>3 DEF Next

(***************************************************************************)
(* The inductive invariant holds in every state of the suite.              *)
(***************************************************************************)
THEOREM SuiteInvariance == Spec => []SInv
BY InitSInv, NextSInv, PTL DEF Spec

(***************************************************************************)
(* No child runs once the parent has left the part of                      *)
(* multi_client_call_test in which its parameters and the mutex exist.     *)
(***************************************************************************)
THEOREM ChildrenWithinParentHolds == Spec => []ChildrenWithinParent
<1>1. SInv => ChildrenWithinParent
  BY DEF SInv, ChildrenOK, Owning, ChildrenWithinParent
<1>. QED
  BY <1>1, SuiteInvariance, PTL

(***************************************************************************)
(* A test that has run its loops passes if and only if no call failed.     *)
(***************************************************************************)
THEOREM VerdictExactHolds == Spec => []VerdictExact
<1>1. SInv => VerdictExact
  BY DEF SInv, VerdictOK
<1>. QED
  BY <1>1, SuiteInvariance, PTL

-----------------------------------------------------------------------------
(* The sum of the calls. *)

\* A row of n pairs has n elements.
LEMMA RowSize ==
    ASSUME NEW c, NEW n \in Nat
    PROVE  LET row == {<<c, k>> : k \in 0 .. n - 1}
           IN  IsFiniteSet(row) /\ Cardinality(row) = n
<1>. DEFINE row == {<<c, k>> : k \in 0 .. n - 1}
            pair == [k \in 0 .. n - 1 |-> <<c, k>>]
<1>1. pair \in Bijection(0 .. n - 1, row)
  BY DEF Bijection, Injection, Surjection, IsInjective
<1>2. IsFiniteSet(0 .. n - 1) /\ Cardinality(0 .. n - 1) = n
  BY FS_Interval
<1>. HIDE DEF row, pair
<1>3. ExistsBijection(0 .. n - 1, row)
  BY <1>1 DEF ExistsBijection
<1>4. IsFiniteSet(row) /\ Cardinality(row) = n
  BY <1>2, <1>3, FS_Bijection
<1>. QED
  BY <1>4 DEF row

(***************************************************************************)
(* At the report the sum over the runners' results, which the code adds up *)
(* in a loop, is the number of transmissions: both count row by row.       *)
(***************************************************************************)
LEMMA TotalIsCount ==
    ASSUME SInv, pc[Parent] = "avg"
    PROVE  TotalCalls = Cardinality(Sent) /\ nr_tx = Cardinality(Sent) /\ Cardinality(Sent) > 0
<1>. USE DEF SInv
<1>. DEFINE calls(t) == params[t].calls
            row(t) == {<<t, k>> : k \in 0 .. calls(t) - 1}
            part(k) == {tk \in Sent : tk[1] = Parent \/ tk[1] < k}
<1>1. nr_child \in Nat /\ nr_child <= NR_MULTI_CALL_CHILD
  BY Tasks DEF SuiteTypeOK
<1>2. \A t \in Runners : t \in Task /\ params[t].ret = "PASSED"
  BY Results DEF VerdictOK
<1>3. \A t \in Task \ Runners : params[t].ret = UNDEF
  BY Results
<1>4. ~Owning
  BY DEF Owning
<1>5. ASSUME NEW t \in Runners PROVE t \in Task /\ calls(t) \in Nat \ {0} /\ Made[t] = calls(t)
  <2>1. params[t] \in Params
    BY <1>2 DEF SuiteTypeOK
  <2>2. calls(t) \in Nat
    BY <2>1 DEF Params
  <2>. QED
    BY <1>2, <2>2, MadeAt DEF LoopsOK
<1>6. ASSUME NEW t \in Task \ Runners PROVE Made[t] = 0
  BY <1>3, <1>4, NoneRuns, MadeAt DEF UNDEF
<1>7. IsFiniteSet(Sent) /\ nr_tx = Cardinality(Sent)
  BY <1>2, <1>3 DEF StatsOK, UNDEF
<1>8. ASSUME NEW t \in Task, NEW k \in Nat
      PROVE  <<t, k>> \in Sent <=> t \in Runners /\ k < calls(t)
  BY <1>5, <1>6 DEF Sent
<1>9. ASSUME NEW tk \in Sent
      PROVE  /\ tk = <<tk[1], tk[2]>> /\ tk[1] \in Runners /\ tk[2] \in Nat /\ tk[2] < calls(tk[1])
  <2>1. PICK t \in Task, k \in Nat : tk = <<t, k>>
    BY DEF Sent
  <2>. QED
    BY <1>8, <2>1
<1>10. ASSUME NEW t \in Runners
       PROVE  /\ IsFiniteSet(row(t)) /\ Cardinality(row(t)) = calls(t)
              /\ row(t) = {tk \in Sent : tk[1] = t}
  <2>1. IsFiniteSet(row(t)) /\ Cardinality(row(t)) = calls(t)
    <3>1. calls(t) \in Nat
      BY <1>5
    <3>. HIDE DEF calls
    <3>. QED BY <3>1, RowSize, Zenon
  <2>2. ASSUME NEW x \in row(t) PROVE x \in Sent /\ x[1] = t
    BY <1>5, <1>8, <2>2
  <2>3. ASSUME NEW x \in Sent, x[1] = t PROVE x \in row(t)
    BY <1>5, <1>9, <2>3
  <2>4. row(t) = {tk \in Sent : tk[1] = t}
    <3>. HIDE DEF row
    <3>. QED BY <2>2, <2>3
  <2>. QED BY <2>1, <2>4
<1>11. Parent \in Runners /\ (\A c \in 0 .. nr_child - 1 : c \in Runners)
       /\ \A t \in Runners : t = Parent \/ t \in 0 .. nr_child - 1
  BY DEF Runners
<1>12. \A k \in 0 .. nr_child : IsFiniteSet(part(k)) /\ Cardinality(part(k)) \in Nat
  <2>1. ASSUME NEW k \in 0 .. nr_child PROVE part(k) \in SUBSET Sent
    OBVIOUS
  <2>. HIDE DEF part
  <2>. QED
    BY <1>7, <2>1, FS_Subset, FS_CardinalityType
<1>13. Cardinality(part(0)) = calls(Parent)
  <2>1. part(0) = {tk \in Sent : tk[1] = Parent}
    BY <1>1, <1>9, <1>11
  <2>2. part(0) = row(Parent)
    <3>. HIDE DEF part, row
    <3>. QED BY <1>10, <1>11, <2>1
  <2>3. Cardinality(row(Parent)) = calls(Parent)
    BY <1>10, <1>11
  <2>. HIDE DEF part, row
  <2>. QED BY <2>2, <2>3, Zenon
<1>14. ASSUME NEW k \in 1 .. nr_child
       PROVE  Cardinality(part(k)) = Cardinality(part(k - 1)) + calls(k - 1)
  <2>. DEFINE c == k - 1
  <2>1. c \in 0 .. nr_child - 1 /\ c \in Runners /\ c # Parent /\ c \in 0 .. nr_child
    BY <1>1, <1>11, Tasks
  <2>2. part(k) = part(c) \cup {tk \in Sent : tk[1] = c}
    <3>1. ASSUME NEW tk \in Sent
          PROVE  (tk[1] = Parent \/ tk[1] < k) <=> (tk[1] = Parent \/ tk[1] < c) \/ tk[1] = c
      <4>1. tk[1] = Parent \/ tk[1] \in Int
        BY <1>1, <1>9, <1>11
      <4>. QED
        BY <1>1, <4>1
    <3>. QED
      BY <3>1
  <2>3. part(c) \cap {tk \in Sent : tk[1] = c} = {}
    BY <2>1
  <2>. HIDE DEF c, part, row
  <2>4. part(k) = part(c) \cup row(c) /\ part(c) \cap row(c) = {}
    BY <1>10, <2>1, <2>2, <2>3
  <2>5. Cardinality(part(c) \cup row(c))
          = Cardinality(part(c)) + Cardinality(row(c)) - Cardinality(part(c) \cap row(c))
    BY <1>10, <1>12, <2>1, FS_Union
  <2>6. Cardinality(part(c) \cap row(c)) = 0
    BY <2>4, FS_EmptySet, Zenon
  <2>7. Cardinality(part(k)) = Cardinality(part(c) \cup row(c))
    BY <2>4, Zenon
  <2>8. Cardinality(row(c)) = calls(c) /\ calls(c) \in Nat /\ Cardinality(part(c)) \in Nat
    BY <1>5, <1>10, <1>12, <2>1
  <2>9. Cardinality(part(k)) = Cardinality(part(c)) + calls(c)
    <3>. HIDE DEF calls
    <3>. QED BY <2>5, <2>6, <2>7, <2>8
  <2>. QED
    BY <2>9 DEF c
<1>15. part(nr_child) = Sent
  BY <1>9, <1>1, <1>11
<1>16. Cardinality(part(nr_child)) = Cardinality(Sent)
  <2>. HIDE DEF part
  <2>. QED BY <1>15, Zenon
<1>. DEFINE s == [k \in 0 .. nr_child |-> Cardinality(part(k))]
            u == CHOOSE f : f = [m \in 0 .. nr_child |->
                                    IF m = 0 THEN params[Parent].calls
                                    ELSE f[m - 1] + params[m - 1].calls]
<1>17. TotalCalls = u[nr_child]
  BY Zenon DEF TotalCalls
<1>18. u = [m \in 0 .. nr_child |->
              IF m = 0 THEN params[Parent].calls ELSE u[m - 1] + params[m - 1].calls]
  <2>1. s = [m \in 0 .. nr_child |->
               IF m = 0 THEN params[Parent].calls ELSE s[m - 1] + params[m - 1].calls]
    <3>1. ASSUME NEW m \in 0 .. nr_child
          PROVE  Cardinality(part(m))
                   = IF m = 0 THEN params[Parent].calls ELSE s[m - 1] + params[m - 1].calls
      <4>1. CASE m = 0
        <5>. HIDE DEF part
        <5>. QED BY <1>13, <4>1
      <4>2. CASE m # 0
        <5>1. m \in 1 .. nr_child /\ m - 1 \in 0 .. nr_child
          BY <1>1, <4>2
        <5>2. s[m - 1] = Cardinality(part(m - 1))
          <6>. HIDE DEF part
          <6>. QED BY <5>1
        <5>. HIDE DEF part, s
        <5>. QED BY <1>14, <4>2, <5>1, <5>2
      <4>. QED BY <4>1, <4>2
    <3>. HIDE DEF part
    <3>. QED BY <3>1
  <2>2. \E f : f = [m \in 0 .. nr_child |->
                      IF m = 0 THEN params[Parent].calls ELSE f[m - 1] + params[m - 1].calls]
    <3>. HIDE DEF s
    <3>. QED BY <2>1
  <2>. QED BY <2>2
<1>. HIDE DEF u, part
<1>. DEFINE Bad == {k \in 0 .. nr_child : u[k] # Cardinality(part(k))}
<1>19. Bad = {}
  <2>. SUFFICES ASSUME Bad # {} PROVE FALSE
    OBVIOUS
  <2>1. PICK i \in Bad : \A j \in Bad : i <= j
    <3>1. Bad \subseteq Nat
      BY <1>1
    <3>. HIDE DEF Bad
    <3>. QED BY <3>1, LeastNumber
  <2>2. i \in 1 .. nr_child
    BY <1>1, <1>13, <1>18
  <2>3. i - 1 \in 0 .. nr_child /\ i - 1 \notin Bad
    BY <1>1, <2>1, <2>2
  <2>4. u[i - 1] = Cardinality(part(i - 1))
    BY <2>3
  <2>5. u[i] = u[i - 1] + calls(i - 1)
    <3>1. i \in 0 .. nr_child /\ i # 0
      BY <1>1, <2>2
    <3>2. u[i] = IF i = 0 THEN params[Parent].calls ELSE u[i - 1] + params[i - 1].calls
      BY <1>18, <3>1, Zenon
    <3>. QED BY <3>1, <3>2
  <2>6. u[i] = Cardinality(part(i))
    BY <1>14, <2>2, <2>4, <2>5
  <2>. QED BY <2>2, <2>6
<1>20. TotalCalls = Cardinality(Sent)
  <2>1. nr_child \in 0 .. nr_child
    BY <1>1
  <2>2. u[nr_child] = Cardinality(part(nr_child))
    BY <1>19, <2>1
  <2>. QED
    BY <1>16, <1>17, <2>2
<1>21. Cardinality(Sent) > 0
  <2>1. <<Parent, 0>> \in Sent
    BY <1>5, <1>8, <1>11
  <2>2. Sent # {} /\ Cardinality(Sent) \in Nat
    BY <1>7, <2>1, FS_CardinalityType
  <2>3. Cardinality(Sent) # 0
    BY <1>7, <2>2, FS_EmptySet
  <2>. QED BY <2>2, <2>3
<1>. QED
  BY <1>7, <1>20, <1>21

(***************************************************************************)
(* When the averages are computed the statistics count exactly the calls   *)
(* of this test, and there are some: nothing divides by zero.              *)
(***************************************************************************)
THEOREM StatsExactHolds == Spec => []StatsExactAtReport
<1>1. SInv => StatsExactAtReport
  BY TotalIsCount DEF StatsExactAtReport, At
<1>. QED
  BY <1>1, SuiteInvariance, PTL
=============================================================================
