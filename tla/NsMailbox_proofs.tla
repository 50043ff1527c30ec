-------------------------- MODULE NsMailbox_proofs --------------------------
(***************************************************************************)
(* The safety of the mailbox, for every number of tasks and slots and in   *)
(* both builds: the slots, the semaphore, the thread flags and the message *)
(* queue agree with where each thread is, and the mailbox implements the   *)
(* abstract client call.                                                   *)
(***************************************************************************)
EXTENDS NsMailboxClients, FiniteSetTheorems, TLAPS

-----------------------------------------------------------------------------
(* The inductive invariant. *)

Semaphore == [count : Nat, max : {NUM_MAILBOX_QUEUE_SLOT}, waiters : Seq(Task)]
Mq == [msgs : Seq(Task), msg_count : {NUM_MAILBOX_QUEUE_SLOT}]

TaskLabel ==
    {"idle", "lock", "slot", "send", "stats_read", "stats_add", "post", "wait", "rx", "unlock"}
MtLabel == {"receive", "slot", "stats_read", "stats_add", "post"}

MailboxTypeOK ==
    /\ \/ ns_lock \in Semaphore /\ mq = NULL
       \/ ns_lock = NULL /\ mq \in Mq
    /\ req \in Task \cup {NoTask}
    /\ queue \in [MbxSlot -> [state : {"empty", "held", "pend", "replied", "woken"},
                              owner : Task \cup {NoTask}]]
    /\ irq \in BOOLEAN
    /\ flags \in [Task -> SUBSET (0 .. 31)]
    /\ mbx \in [Thread -> TaskLabel \cup {"receive"}]
    /\ \A t \in Task : mbx[t] # "receive"
    /\ mbx[MailboxThread] \in MtLabel
    /\ my_slot \in [Thread -> MbxSlot \cup {NoSlot}]
    /\ nr_empty \in [Thread -> 0 .. NUM_MAILBOX_QUEUE_SLOT]
    /\ nr_tx \in Nat
    /\ nr_used_slots \in Nat

\* A thread has a slot from taking it to posting it, and a task from the post to
\* its reply.
SlotByPlace ==
    \A t \in Thread :
        /\ mbx[t] \in {"stats_read", "stats_add", "post"} =>
              my_slot[t] # NoSlot /\ queue[my_slot[t]].state = "held"
        /\ mbx[t] \in {"idle", "lock", "slot", "send", "unlock", "receive"} =>
              my_slot[t] = NoSlot
        /\ mbx[t] = "wait" /\ my_slot[t] # NoSlot =>
              /\ queue[my_slot[t]].state \in {"pend", "replied", "woken"}
              /\ queue[my_slot[t]].owner = t
        /\ mbx[t] = "rx" =>
              /\ my_slot[t] # NoSlot
              /\ queue[my_slot[t]] = [state |-> "woken", owner |-> t]

\* No two threads have one slot, and a slot that is not empty has its thread.
SlotOwned ==
    /\ \A t, u \in Thread : my_slot[t] = my_slot[u] /\ my_slot[t] # NoSlot => t = u
    /\ \A s \in MbxSlot : queue[s].state # "empty" => \E t \in Thread : my_slot[t] = s

\* The flag of a task is set from the interrupt that handles its slot to the end
\* of its wait, and no other flag ever is.
FlagState ==
    \A t \in Task :
        flags[t] = IF mbx[t] = "wait" /\ my_slot[t] # NoSlot /\ queue[my_slot[t]].state = "woken"
                   THEN MAILBOX_THREAD_FLAG ELSE {}

\* A slot replied to and not yet handled has its interrupt pending.
ReplyPending == \A s \in MbxSlot : queue[s].state = "replied" => irq

\* A task that has the semaphore.
Holders ==
    {t \in Task : mbx[t] \in {"slot", "stats_read", "stats_add", "post", "wait", "rx", "unlock"}}

\* A sequence of tasks without repetition, and the tasks in it.
Distinct(s) == \A j, k \in 1 .. Len(s) : s[j] = s[k] => j = k
Among(t, s) == \E k \in 1 .. Len(s) : s[k] = t

\* In the build with the semaphore: its tokens are those nobody holds, its
\* waiters are the tasks that wait, once each, and the mailbox thread is idle.
SemaphoreState ==
    ns_lock # NULL =>
        /\ ns_lock.count + Cardinality(Holders) = NUM_MAILBOX_QUEUE_SLOT
        /\ ns_lock.waiters # <<>> => ns_lock.count = 0
        /\ \A t \in Task : mbx[t] = "lock" <=> Among(t, ns_lock.waiters)
        /\ Distinct(ns_lock.waiters)
        /\ \A t \in Task : mbx[t] # "send"
        /\ \A t \in Task : mbx[t] = "wait" => my_slot[t] # NoSlot
        /\ mbx[MailboxThread] = "receive" /\ req = NoTask

\* In the build with the mailbox thread: a task that waits without a slot has
\* its request in the queue or with the thread, once, and nobody else has.
QueueState ==
    mq # NULL =>
        /\ \A t \in Task : mbx[t] \in {"idle", "send", "wait", "rx"}
        /\ req = NoTask <=> mbx[MailboxThread] = "receive"
        /\ \A t \in Task : InQueue(t) <=> req = t \/ Among(t, mq.msgs)
        /\ ~Among(req, mq.msgs)
        /\ Distinct(mq.msgs)

MInv ==
    /\ MailboxTypeOK
    /\ SlotByPlace
    /\ SlotOwned
    /\ FlagState
    /\ ReplyPending
    /\ SemaphoreState
    /\ QueueState

-----------------------------------------------------------------------------
(* The wrapper's calls on the kernel objects of the mailbox. *)

\* The handle of an object that exists is not NULL.
LEMMA NotNull ==
    /\ \A s \in Semaphore : s # NULL
    /\ \A q \in Mq : q # NULL
<1>1. ASSUME NEW s \in Semaphore PROVE s # NULL
  BY DEF Semaphore, NULL
<1>2. ASSUME NEW q \in Mq PROVE q # NULL
  BY DEF Mq, NULL
<1>. QED
  BY <1>1, <1>2

\* tfm_ns_mailbox_os_lock_init and tfm_ns_mailbox_os_mq_create give such objects.
LEMMA Created == lock_init \in Semaphore /\ mq_create \in Mq
BY SlotAssumption DEF lock_init, mq_create, Semaphore, Mq, MAX_SEMAPHORE_COUNT,
   os_wrapper_semaphore_create, osSemaphoreNew, os_wrapper_msg_queue_create, osMessageQueueNew

\* A task that acquires the semaphore takes a token or joins the waiters.
LEMMA AcquireResult ==
    ASSUME NEW s \in Semaphore, NEW t \in Task
    PROVE  LET r == os_wrapper_semaphore_acquire(s, t, OS_WRAPPER_WAIT_FOREVER)
           IN  /\ s.count > 0 => /\ r.ret # Blocked
                                 /\ r.obj \in Semaphore
                                 /\ r.obj.count = s.count - 1
                                 /\ r.obj.waiters = s.waiters
               /\ s.count = 0 => /\ r.ret = Blocked
                                 /\ r.obj \in Semaphore
                                 /\ r.obj.count = 0
                                 /\ r.obj.waiters = Append(s.waiters, t)
<1>. DEFINE taken == [s EXCEPT !.count = @ - 1]
            queued == [s EXCEPT !.waiters = Append(@, t)]
<1>1. s # NULL /\ s.count \in Nat /\ s.waiters \in Seq(Task)
  BY NotNull DEF Semaphore
<1>2. s.count > 0 => /\ taken \in Semaphore
                     /\ taken.count = s.count - 1
                     /\ taken.waiters = s.waiters
  BY <1>1 DEF Semaphore
<1>3. Append(s.waiters, t) \in Seq(Task)
  BY <1>1
<1>4. queued \in Semaphore /\ queued.count = s.count /\ queued.waiters = Append(s.waiters, t)
  BY <1>1, <1>3 DEF Semaphore
<1>5. ASSUME s.count > 0
      PROVE  os_wrapper_semaphore_acquire(s, t, OS_WRAPPER_WAIT_FOREVER)
                = [ret |-> OS_WRAPPER_SUCCESS, obj |-> taken]
  BY <1>1, <1>5 DEF os_wrapper_semaphore_acquire, Report, osSemaphoreAcquire, osOK, Blocked
<1>6. ASSUME s.count = 0
      PROVE  os_wrapper_semaphore_acquire(s, t, OS_WRAPPER_WAIT_FOREVER)
                = [ret |-> Blocked, obj |-> queued]
  BY <1>1, <1>6 DEF os_wrapper_semaphore_acquire, Report, osSemaphoreAcquire, Timeout,
     osWaitForever, OS_WRAPPER_WAIT_FOREVER
<1>. HIDE DEF taken, queued
<1>. QED
  BY <1>2, <1>4, <1>5, <1>6 DEF OS_WRAPPER_SUCCESS, Blocked

\* A release hands the token to the first waiter or gives it back.
LEMMA ReleaseResult ==
    ASSUME NEW s \in Semaphore
    PROVE  LET r == os_wrapper_semaphore_release(s)
           IN  /\ s.waiters # <<>> => /\ r.obj \in Semaphore
                                      /\ r.obj.count = s.count
                                      /\ r.obj.waiters = Tail(s.waiters)
               /\ s.waiters = <<>> /\ s.count < NUM_MAILBOX_QUEUE_SLOT =>
                                      /\ r.obj \in Semaphore
                                      /\ r.obj.count = s.count + 1
                                      /\ r.obj.waiters = <<>>
<1>. DEFINE given == [s EXCEPT !.count = @ + 1]
            handed == [s EXCEPT !.waiters = Tail(@)]
<1>1. s # NULL /\ s.count \in Nat /\ s.waiters \in Seq(Task) /\ s.max = NUM_MAILBOX_QUEUE_SLOT
  BY NotNull DEF Semaphore
<1>2. given \in Semaphore /\ given.count = s.count + 1 /\ given.waiters = s.waiters
  BY <1>1 DEF Semaphore
<1>3. s.waiters # <<>> => Tail(s.waiters) \in Seq(Task)
  BY <1>1
<1>4. s.waiters # <<>> => /\ handed \in Semaphore
                          /\ handed.count = s.count
                          /\ handed.waiters = Tail(s.waiters)
  BY <1>1, <1>3 DEF Semaphore
<1>5. s.waiters # <<>> => os_wrapper_semaphore_release(s).obj = handed
  BY <1>1 DEF os_wrapper_semaphore_release, Report, osSemaphoreRelease
<1>6. s.waiters = <<>> /\ s.count < NUM_MAILBOX_QUEUE_SLOT =>
         os_wrapper_semaphore_release(s).obj = given
  BY <1>1 DEF os_wrapper_semaphore_release, Report, osSemaphoreRelease
<1>. HIDE DEF given, handed
<1>. QED
  BY <1>2, <1>4, <1>5, <1>6

\* A send appends the request, or fails and leaves the queue alone.
LEMMA SendResult ==
    ASSUME NEW q \in Mq, NEW t \in Task
    PROVE  LET r == os_wrapper_msg_queue_send(q, t)
           IN  \/ /\ r.ret = OS_WRAPPER_SUCCESS
                  /\ r.obj \in Mq
                  /\ r.obj.msgs = Append(q.msgs, t)
               \/ r.ret # OS_WRAPPER_SUCCESS /\ r.obj = q
<1>. DEFINE sent == [q EXCEPT !.msgs = Append(@, t)]
<1>1. q.msgs \in Seq(Task)
  BY DEF Mq
<1>2. Append(q.msgs, t) \in Seq(Task)
  BY <1>1
<1>3. sent \in Mq /\ sent.msgs = Append(q.msgs, t)
  BY <1>1, <1>2 DEF Mq
<1>4. CASE Len(q.msgs) < q.msg_count
  <2>1. os_wrapper_msg_queue_send(q, t) = [ret |-> OS_WRAPPER_SUCCESS, obj |-> sent]
    BY <1>4 DEF os_wrapper_msg_queue_send, Report, osMessageQueuePut, osOK, Blocked
  <2>. HIDE DEF sent
  <2>. QED
    BY <2>1, <1>3
<1>5. CASE ~(Len(q.msgs) < q.msg_count)
  BY <1>5 DEF os_wrapper_msg_queue_send, Report, osMessageQueuePut, osOK, Blocked,
     osErrorResource, OS_WRAPPER_ERROR, OS_WRAPPER_SUCCESS
<1>. QED
  BY <1>4, <1>5

\* A receive that returns has taken the first request.
LEMMA ReceiveResult ==
    ASSUME NEW q \in Mq, os_wrapper_msg_queue_receive(q).ret = OS_WRAPPER_SUCCESS
    PROVE  /\ q.msgs # <<>>
           /\ os_wrapper_msg_queue_receive(q).obj \in Mq
           /\ os_wrapper_msg_queue_receive(q).obj.msgs = Tail(q.msgs)
<1>. DEFINE got == [q EXCEPT !.msgs = Tail(@)]
<1>1. q.msgs \in Seq(Task)
  BY DEF Mq
<1>2. q.msgs # <<>>
  BY DEF os_wrapper_msg_queue_receive, Report, osMessageQueueGet, Blocked, OS_WRAPPER_SUCCESS
<1>3. Tail(q.msgs) \in Seq(Task)
  BY <1>1, <1>2
<1>4. got \in Mq /\ got.msgs = Tail(q.msgs)
  BY <1>1, <1>3 DEF Mq
<1>5. os_wrapper_msg_queue_receive(q).obj = got
  BY <1>2 DEF os_wrapper_msg_queue_receive, Report, osMessageQueueGet
<1>. HIDE DEF got
<1>. QED
  BY <1>2, <1>4, <1>5

\* The flags of the mailbox do not have the MSB, which the kernel refuses.
LEMMA FlagNotError == osFlagsError \notin MAILBOX_THREAD_FLAG
BY DEF osFlagsError, MAILBOX_THREAD_FLAG

\* Setting and waiting for the mailbox's flag on a task that has no other.
LEMMA FlagResult ==
    ASSUME NEW f
    PROVE  /\ os_wrapper_thread_set_flag_isr(f, MAILBOX_THREAD_FLAG).obj = f \cup MAILBOX_THREAD_FLAG
           /\ LET r == os_wrapper_thread_wait_flag(f, MAILBOX_THREAD_FLAG, OS_WRAPPER_WAIT_FOREVER)
              IN  r.ret # Blocked =>
                     MAILBOX_THREAD_FLAG \subseteq f /\ r.obj = f \ MAILBOX_THREAD_FLAG
<1>1. os_wrapper_thread_set_flag_isr(f, MAILBOX_THREAD_FLAG).obj = f \cup MAILBOX_THREAD_FLAG
  BY FlagNotError DEF os_wrapper_thread_set_flag_isr, Report, osThreadFlagsSet
<1>. DEFINE r == os_wrapper_thread_wait_flag(f, MAILBOX_THREAD_FLAG, OS_WRAPPER_WAIT_FOREVER)
<1>2. CASE MAILBOX_THREAD_FLAG \subseteq f
  BY <1>1, <1>2, FlagNotError DEF os_wrapper_thread_wait_flag, Report, osThreadFlagsWait
<1>3. CASE ~(MAILBOX_THREAD_FLAG \subseteq f)
  <2>1. r.ret = Blocked
    BY <1>3, FlagNotError DEF os_wrapper_thread_wait_flag, Report, osThreadFlagsWait, Timeout,
       osWaitForever, OS_WRAPPER_WAIT_FOREVER
  <2>. QED
    BY <1>1, <2>1
<1>. QED
  BY <1>2, <1>3

-----------------------------------------------------------------------------
(* Queues of tasks, and counting tasks. *)

\* Nobody is in an empty queue.
LEMMA EmptyQueue == Distinct(<<>>) /\ \A t : ~Among(t, <<>>)
BY DEF Distinct, Among

\* A task that joins a queue it was not in is in it once.
LEMMA AppendQueue ==
    ASSUME NEW s \in Seq(Task), NEW t \in Task, Distinct(s), ~Among(t, s)
    PROVE  /\ Distinct(Append(s, t))
           /\ \A u : Among(u, Append(s, t)) <=> Among(u, s) \/ u = t
<1>. DEFINE a == Append(s, t)
<1>1. /\ Len(s) \in Nat
      /\ Len(a) = Len(s) + 1
      /\ a[Len(s) + 1] = t
      /\ \A k \in 1 .. Len(s) : a[k] = s[k]
  OBVIOUS
<1>. HIDE DEF a
<1>2. ASSUME NEW j \in 1 .. Len(a), NEW k \in 1 .. Len(a), a[j] = a[k] PROVE j = k
  <2>1. CASE j = Len(s) + 1 /\ k # Len(s) + 1
    BY <1>1, <1>2, <2>1 DEF Among
  <2>2. CASE j # Len(s) + 1 /\ k = Len(s) + 1
    BY <1>1, <1>2, <2>2 DEF Among
  <2>3. CASE j # Len(s) + 1 /\ k # Len(s) + 1
    BY <1>1, <1>2, <2>3 DEF Distinct
  <2>. QED
    BY <1>1, <2>1, <2>2, <2>3
<1>3. ASSUME NEW u PROVE Among(u, a) <=> Among(u, s) \/ u = t
  BY <1>1 DEF Among
<1>4. Distinct(a)
  BY <1>2 DEF Distinct
<1>. QED
  BY <1>3, <1>4 DEF a

\* The head leaves a queue and nobody else does.
LEMMA TailQueue ==
    ASSUME NEW s \in Seq(Task), s # <<>>, Distinct(s)
    PROVE  /\ Head(s) \in Task /\ Among(Head(s), s)
           /\ Distinct(Tail(s))
           /\ \A u : Among(u, Tail(s)) <=> Among(u, s) /\ u # Head(s)
<1>. DEFINE a == Tail(s)
<1>1. /\ Len(s) \in Nat \ {0}
      /\ Len(a) = Len(s) - 1
      /\ Head(s) = s[1] /\ s[1] \in Task
      /\ \A k \in 1 .. Len(a) : a[k] = s[k + 1]
  OBVIOUS
<1>. HIDE DEF a
<1>2. Distinct(a)
  <2>. SUFFICES ASSUME NEW j \in 1 .. Len(a), NEW k \in 1 .. Len(a), a[j] = a[k] PROVE j = k
    BY DEF Distinct
  <2>1. j + 1 \in 1 .. Len(s) /\ k + 1 \in 1 .. Len(s) /\ s[j + 1] = s[k + 1]
    BY <1>1
  <2>. QED
    BY <2>1, <1>1 DEF Distinct
<1>3. ASSUME NEW u, Among(u, a) PROVE Among(u, s) /\ u # s[1]
  <2>1. PICK k \in 1 .. Len(a) : a[k] = u
    BY <1>3 DEF Among
  <2>2. k + 1 \in 1 .. Len(s) /\ s[k + 1] = u /\ k + 1 # 1 /\ 1 \in 1 .. Len(s)
    BY <1>1, <2>1
  <2>. QED
    BY <2>2 DEF Among, Distinct
<1>4. ASSUME NEW u, Among(u, s), u # s[1] PROVE Among(u, a)
  <2>1. PICK k \in 1 .. Len(s) : s[k] = u
    BY <1>4 DEF Among
  <2>2. k - 1 \in 1 .. Len(a) /\ a[k - 1] = u
    BY <1>1, <1>4, <2>1
  <2>. QED
    BY <2>2 DEF Among
<1>5. Among(s[1], s)
  BY <1>1 DEF Among
<1>. QED
  BY <1>1, <1>2, <1>3, <1>4, <1>5 DEF a

\* Sets of tasks can be counted.
LEMMA TasksCounted ==
    ASSUME NEW S \in SUBSET Task
    PROVE  IsFiniteSet(S) /\ Cardinality(S) \in Nat
BY TaskAssumption, FS_Subset, FS_CardinalityType

\* One task more.
LEMMA OneMore ==
    ASSUME NEW S \in SUBSET Task, NEW t \in Task, t \notin S
    PROVE  Cardinality(S \cup {t}) = Cardinality(S) + 1
BY TasksCounted, FS_AddElement

\* One task less.
LEMMA OneLess ==
    ASSUME NEW S \in SUBSET Task, NEW t \in S
    PROVE  Cardinality(S \ {t}) = Cardinality(S) - 1
BY TasksCounted, FS_RemoveElement

\* There are between none and all of the slots empty.
LEMMA EmptySlotsCounted == Cardinality(EmptySlots) \in 0 .. NUM_MAILBOX_QUEUE_SLOT
<1>1. IsFiniteSet(MbxSlot) /\ Cardinality(MbxSlot) = NUM_MAILBOX_QUEUE_SLOT
  BY SlotAssumption, FS_Interval DEF MbxSlot
<1>. QED
  BY <1>1, SlotAssumption, FS_Subset, FS_CardinalityType DEF EmptySlots

-----------------------------------------------------------------------------
(* Every step preserves the invariant. *)

\* A slot that a thread has is not empty.
LEMMA UsedSlot ==
    ASSUME MInv, NEW t \in Thread, my_slot[t] # NoSlot
    PROVE  my_slot[t] \in MbxSlot /\ queue[my_slot[t]].state # "empty"
<1>1. my_slot[t] \in MbxSlot /\ mbx[t] \in TaskLabel \cup {"receive"}
  BY DEF MInv, MailboxTypeOK
<1>2. CASE mbx[t] \in {"stats_read", "stats_add", "post"}
  BY <1>1, <1>2 DEF MInv, SlotByPlace
<1>3. CASE mbx[t] = "wait"
  BY <1>1, <1>3 DEF MInv, SlotByPlace
<1>4. CASE mbx[t] = "rx"
  <2>1. queue[my_slot[t]] = [state |-> "woken", owner |-> t]
    BY <1>4 DEF MInv, SlotByPlace
  <2>. QED
    BY <1>1, <2>1
<1>5. CASE mbx[t] \in {"idle", "lock", "slot", "send", "unlock", "receive"}
  BY <1>5 DEF MInv, SlotByPlace
<1>. QED
  BY <1>1, <1>2, <1>3, <1>4, <1>5 DEF TaskLabel

\* A slot that is posted, and not yet handled, is that of a task which waits.
LEMMA PostedSlot ==
    ASSUME MInv, NEW t \in Thread, my_slot[t] # NoSlot,
           queue[my_slot[t]].state \in {"pend", "replied"}
    PROVE  mbx[t] = "wait" /\ queue[my_slot[t]].owner = t
<1>1. mbx[t] \in TaskLabel \cup {"receive"}
  BY DEF MInv, MailboxTypeOK
<1>2. mbx[t] # "rx"
  <2>. SUFFICES ASSUME mbx[t] = "rx" PROVE FALSE
    OBVIOUS
  <2>1. queue[my_slot[t]] = [state |-> "woken", owner |-> t]
    BY DEF MInv, SlotByPlace
  <2>. QED
    BY <2>1
<1>3. mbx[t] \notin {"stats_read", "stats_add", "post"}
  BY DEF MInv, SlotByPlace
<1>4. mbx[t] \notin {"idle", "lock", "slot", "send", "unlock", "receive"}
  BY DEF MInv, SlotByPlace
<1>5. mbx[t] = "wait"
  BY <1>1, <1>2, <1>3, <1>4 DEF TaskLabel
<1>. QED
  BY <1>5 DEF MInv, SlotByPlace

\* The invariant holds when the mailbox has been initialised.
LEMMA InitMInv == MailboxInit => MInv
<1>. SUFFICES ASSUME MailboxInit PROVE MInv
  OBVIOUS
<1>. USE DEF MailboxInit
<1>1. MailboxTypeOK
  <2>1. queue \in [MbxSlot -> [state : {"empty", "held", "pend", "replied", "woken"},
                               owner : Task \cup {NoTask}]]
    OBVIOUS
  <2>2. nr_empty \in [Thread -> 0 .. NUM_MAILBOX_QUEUE_SLOT]
    BY SlotAssumption
  <2>3. flags \in [Task -> SUBSET (0 .. 31)]
    OBVIOUS
  <2>. QED
    BY <2>1, <2>2, <2>3, Created, TaskAssumption
    DEF MailboxTypeOK, Thread, TaskLabel, MtLabel
<1>2. SlotByPlace /\ SlotOwned /\ FlagState /\ ReplyPending
  BY TaskAssumption DEF SlotByPlace, SlotOwned, FlagState, ReplyPending, Thread, NoSlot
<1>3. SemaphoreState
  <2>1. CASE ns_lock = lock_init /\ mq = NULL
    <3>1. Holders = {}
      BY TaskAssumption DEF Holders, Thread
    <3>2. Cardinality(Holders) = 0
      BY <3>1, FS_EmptySet
    <3>3. /\ ns_lock.count = NUM_MAILBOX_QUEUE_SLOT
          /\ ns_lock.waiters = <<>>
      BY <2>1 DEF lock_init, MAX_SEMAPHORE_COUNT, os_wrapper_semaphore_create, osSemaphoreNew
    <3>. QED
      BY <3>2, <3>3, EmptyQueue, SlotAssumption, TaskAssumption DEF SemaphoreState, Thread
  <2>2. CASE ns_lock = NULL
    BY <2>2 DEF SemaphoreState
  <2>. QED
    BY <2>1, <2>2
<1>4. QueueState
  <2>1. CASE ns_lock = NULL /\ mq = mq_create
    <3>1. mq.msgs = <<>>
      BY <2>1 DEF mq_create, os_wrapper_msg_queue_create, osMessageQueueNew
    <3>. QED
      BY <3>1, EmptyQueue, TaskAssumption DEF QueueState, InQueue, Thread
  <2>2. CASE mq = NULL
    BY <2>2 DEF QueueState
  <2>. QED
    BY <2>1, <2>2
<1>. QED
  BY <1>1, <1>2, <1>3, <1>4 DEF MInv

\* A task takes the multi-core lock or waits for it.
LEMMA LockAcquireMInv ==
    ASSUME MInv, NEW t \in Task, lock_acquire(t)
    PROVE  MInv'
<1>. DEFINE r == os_wrapper_semaphore_acquire(ns_lock, t, OS_WRAPPER_WAIT_FOREVER)
<1>. USE DEF lock_acquire, Goto
<1>1. ns_lock \in Semaphore /\ ns_lock # NULL /\ mq = NULL /\ t \in Thread /\ mbx[t] = "idle"
  BY DEF MInv, MailboxTypeOK, Thread
<1>a. /\ ns_lock.count \in Nat
      /\ ns_lock' = r.obj
      /\ mbx' = [mbx EXCEPT ![t] = IF r.ret = Blocked THEN "lock" ELSE "slot"]
  BY <1>1 DEF Semaphore
<1>b. /\ ns_lock.count > 0 => /\ r.ret # Blocked
                              /\ r.obj.count = ns_lock.count - 1
                              /\ r.obj.waiters = ns_lock.waiters
      /\ ns_lock.count = 0 => /\ r.ret = Blocked
                              /\ r.obj.count = 0
                              /\ r.obj.waiters = Append(ns_lock.waiters, t)
  BY <1>1, AcquireResult
<1>2. ns_lock' # NULL /\ ns_lock' \in Semaphore
  BY <1>1, AcquireResult, NotNull DEF Semaphore
<1>3. \/ /\ ns_lock.count > 0
         /\ mbx' = [mbx EXCEPT ![t] = "slot"]
         /\ ns_lock'.count = ns_lock.count - 1
         /\ ns_lock'.waiters = ns_lock.waiters
      \/ /\ ns_lock.count = 0
         /\ mbx' = [mbx EXCEPT ![t] = "lock"]
         /\ ns_lock'.count = 0
         /\ ns_lock'.waiters = Append(ns_lock.waiters, t)
  <2>. HIDE DEF r, lock_acquire
  <2>1. CASE ns_lock.count > 0
    BY <1>a, <1>b, <2>1
  <2>2. CASE ns_lock.count = 0
    BY <1>a, <1>b, <2>2
  <2>. QED
    BY <1>a, <2>1, <2>2
<1>4. UNCHANGED <<mq, req, flags, queue, irq, my_slot, nr_empty, nr_tx, nr_used_slots>>
  BY DEF queueVars, statVars
<1>. HIDE DEF lock_acquire, Goto
<1>5. MailboxTypeOK'
  BY <1>1, <1>2, <1>3, <1>4, TaskAssumption DEF MInv, MailboxTypeOK, TaskLabel, Thread
<1>c. mbx'[t] \in {"slot", "lock"} /\ \A u \in Thread : u # t => mbx'[u] = mbx[u]
  BY <1>1, <1>3 DEF MInv, MailboxTypeOK
<1>6. SlotByPlace'
  <2>. SUFFICES ASSUME NEW u \in Thread PROVE SlotByPlace!(u)'
    BY DEF SlotByPlace
  <2>1. CASE u = t
    BY <1>1, <1>c, <1>4, <2>1 DEF MInv, SlotByPlace
  <2>2. CASE u # t
    BY <1>c, <1>4, <2>2 DEF MInv, SlotByPlace
  <2>. QED
    BY <2>1, <2>2
<1>7. SlotOwned' /\ ReplyPending'
  BY <1>4 DEF MInv, SlotOwned, ReplyPending, MbxSlot
<1>8. FlagState'
  BY <1>1, <1>3, <1>4 DEF MInv, MailboxTypeOK, FlagState, Thread
<1>9. SemaphoreState'
  <2>1. CASE ns_lock.count > 0
    <3>1. Holders' = Holders \cup {t} /\ t \notin Holders
      BY <1>1, <1>3, <2>1 DEF Holders, MInv, MailboxTypeOK, Thread
    <3>2. Cardinality(Holders') = Cardinality(Holders) + 1 /\ Cardinality(Holders) \in Nat
      BY <3>1, OneMore, TasksCounted DEF Holders
    <3>3. ns_lock.count \in Nat
      BY <1>1 DEF Semaphore
    <3>4. mbx'[t] = "slot" /\ ns_lock'.count = ns_lock.count - 1 /\ ns_lock'.waiters = ns_lock.waiters
      BY <1>1, <1>3, <2>1 DEF MInv, MailboxTypeOK
    <3>5. ns_lock'.count + Cardinality(Holders') = NUM_MAILBOX_QUEUE_SLOT
      BY <1>1, <3>2, <3>3, <3>4 DEF MInv, SemaphoreState
    <3>. QED
      BY <1>1, <1>4, <1>c, <2>1, <3>4, <3>5, TaskAssumption DEF MInv, SemaphoreState, Thread
  <2>2. CASE ns_lock.count = 0
    <3>1. Holders' = Holders
      BY <1>1, <1>3, <2>2 DEF Holders, MInv, MailboxTypeOK, Thread
    <3>2. ns_lock.waiters \in Seq(Task) /\ ns_lock'.waiters = Append(ns_lock.waiters, t)
      BY <1>1, <1>3, <2>2 DEF Semaphore
    <3>3. ~Among(t, ns_lock.waiters) /\ Distinct(ns_lock.waiters)
      BY <1>1 DEF MInv, SemaphoreState
    <3>4. /\ Distinct(ns_lock'.waiters)
          /\ \A u : Among(u, ns_lock'.waiters) <=> Among(u, ns_lock.waiters) \/ u = t
      BY <3>2, <3>3, AppendQueue
    <3>5. mbx'[t] = "lock" /\ ns_lock'.count = 0
      BY <1>1, <1>3, <2>2 DEF MInv, MailboxTypeOK
    <3>8. ns_lock'.count + Cardinality(Holders') = NUM_MAILBOX_QUEUE_SLOT
      BY <1>1, <2>2, <3>1, <3>5 DEF MInv, SemaphoreState
    <3>. QED
      BY <1>1, <1>4, <1>c, <3>4, <3>5, <3>8, TaskAssumption
      DEF MInv, SemaphoreState, Thread
  <2>. QED
    BY <2>1, <2>2, <1>1 DEF Semaphore
<1>10. QueueState'
  BY <1>1, <1>4 DEF QueueState
<1>. QED
  BY <1>5, <1>6, <1>7, <1>8, <1>9, <1>10 DEF MInv

\* A task puts its request on the mailbox thread's queue, or tries again.
LEMMA MqSendMInv ==
    ASSUME MInv, NEW t \in Task, mq_send(t)
    PROVE  MInv'
<1>. DEFINE r == os_wrapper_msg_queue_send(mq, t)
<1>1. /\ mq \in Mq /\ mq # NULL /\ ns_lock = NULL
      /\ t \in Thread /\ mbx[t] \in {"idle", "send"} /\ my_slot[t] = NoSlot
  BY DEF mq_send, MInv, MailboxTypeOK, SlotByPlace, Thread
<1>2. /\ mq' = r.obj
      /\ mbx' = [mbx EXCEPT ![t] = IF r.ret = OS_WRAPPER_SUCCESS THEN "wait" ELSE "send"]
      /\ UNCHANGED <<ns_lock, req, flags, queue, irq, my_slot, nr_empty, nr_tx, nr_used_slots>>
  BY DEF mq_send, Goto, queueVars, statVars
<1>3. \/ r.ret = OS_WRAPPER_SUCCESS /\ r.obj \in Mq /\ r.obj.msgs = Append(mq.msgs, t)
      \/ r.ret # OS_WRAPPER_SUCCESS /\ r.obj = mq
  BY <1>1, SendResult
<1>4. /\ mq' \in Mq
      /\ \/ mbx' = [mbx EXCEPT ![t] = "wait"] /\ mq'.msgs = Append(mq.msgs, t)
         \/ mbx' = [mbx EXCEPT ![t] = "send"] /\ mq' = mq
  <2>. HIDE DEF r
  <2>1. CASE r.ret = OS_WRAPPER_SUCCESS
    BY <1>2, <1>3, <2>1
  <2>2. CASE r.ret # OS_WRAPPER_SUCCESS
    BY <1>1, <1>2, <1>3, <2>2
  <2>. QED
    BY <2>1, <2>2
<1>5. mbx'[t] \in {"wait", "send"} /\ \A u \in Thread : u # t => mbx'[u] = mbx[u]
  BY <1>1, <1>4 DEF MInv, MailboxTypeOK
<1>6. MailboxTypeOK'
  BY <1>1, <1>2, <1>4, TaskAssumption DEF MInv, MailboxTypeOK, TaskLabel, Thread
<1>7. SlotByPlace'
  <2>. SUFFICES ASSUME NEW u \in Thread PROVE SlotByPlace!(u)'
    BY DEF SlotByPlace
  <2>1. CASE u = t
    BY <1>1, <1>2, <1>5, <2>1 DEF MInv, SlotByPlace
  <2>2. CASE u # t
    BY <1>2, <1>5, <2>2 DEF MInv, SlotByPlace
  <2>. QED
    BY <2>1, <2>2
<1>8. SlotOwned' /\ ReplyPending'
  BY <1>2 DEF MInv, SlotOwned, ReplyPending, MbxSlot
<1>9. FlagState'
  BY <1>1, <1>2, <1>5 DEF MInv, MailboxTypeOK, FlagState, Thread
<1>10. SemaphoreState'
  BY <1>1, <1>2 DEF SemaphoreState
<1>11. QueueState'
  <2>1. mbx'[MailboxThread] = mbx[MailboxThread]
    BY <1>5, TaskAssumption DEF Thread
  <2>2. CASE mbx' = [mbx EXCEPT ![t] = "wait"] /\ mq'.msgs = Append(mq.msgs, t)
    <3>1. mq.msgs \in Seq(Task) /\ Distinct(mq.msgs) /\ ~Among(t, mq.msgs) /\ req # t
      BY <1>1 DEF MInv, Mq, QueueState, InQueue
    <3>2. /\ Distinct(mq'.msgs)
          /\ \A u : Among(u, mq'.msgs) <=> Among(u, mq.msgs) \/ u = t
      BY <2>2, <3>1, AppendQueue
    <3>3. mbx'[t] = "wait"
      BY <1>1, <2>2 DEF MInv, MailboxTypeOK
    <3>. QED
      BY <1>1, <1>2, <1>5, <2>1, <3>1, <3>2, <3>3 DEF MInv, QueueState, InQueue, Thread
  <2>3. CASE mbx' = [mbx EXCEPT ![t] = "send"] /\ mq' = mq
    <3>1. mbx'[t] = "send"
      BY <1>1, <2>3 DEF MInv, MailboxTypeOK
    <3>. QED
      BY <1>1, <1>2, <1>5, <2>1, <2>3, <3>1 DEF MInv, QueueState, InQueue, Thread
  <2>. QED
    BY <1>4, <2>2, <2>3
<1>. QED
  BY <1>6, <1>7, <1>8, <1>9, <1>10, <1>11 DEF MInv

\* The mailbox thread takes the next request.
LEMMA MqReceiveMInv ==
    ASSUME MInv, mq_receive
    PROVE  MInv'
<1>. DEFINE r == os_wrapper_msg_queue_receive(mq)
<1>1. /\ mq \in Mq /\ mq # NULL /\ ns_lock = NULL
      /\ mbx[MailboxThread] = "receive" /\ my_slot[MailboxThread] = NoSlot
      /\ r.ret = OS_WRAPPER_SUCCESS
  BY DEF mq_receive, MInv, MailboxTypeOK, SlotByPlace, Thread
<1>2. /\ mq.msgs # <<>> /\ mq.msgs \in Seq(Task)
      /\ r.obj \in Mq /\ r.obj.msgs = Tail(mq.msgs)
  BY <1>1, ReceiveResult DEF Mq
<1>3. /\ mq' \in Mq /\ mq'.msgs = Tail(mq.msgs)
      /\ req' = Head(mq.msgs)
      /\ mbx' = [mbx EXCEPT ![MailboxThread] = "slot"]
      /\ UNCHANGED <<ns_lock, flags, queue, irq, my_slot, nr_empty, nr_tx, nr_used_slots>>
  BY <1>2 DEF mq_receive, Goto, queueVars, statVars
<1>4. /\ Distinct(mq.msgs)
      /\ req = NoTask
  BY <1>1 DEF MInv, QueueState
<1>5. /\ req' \in Task /\ Among(req', mq.msgs)
      /\ Distinct(mq'.msgs)
      /\ \A u : Among(u, mq'.msgs) <=> Among(u, mq.msgs) /\ u # req'
  BY <1>2, <1>3, <1>4, TailQueue
<1>6. mbx'[MailboxThread] = "slot" /\ \A u \in Task : mbx'[u] = mbx[u]
  BY <1>3, TaskAssumption DEF MInv, MailboxTypeOK, Thread
<1>7. MailboxTypeOK'
  BY <1>1, <1>3, <1>5, TaskAssumption DEF MInv, MailboxTypeOK, TaskLabel, MtLabel, Thread
<1>8. SlotByPlace'
  <2>. SUFFICES ASSUME NEW u \in Thread PROVE SlotByPlace!(u)'
    BY DEF SlotByPlace
  <2>1. CASE u = MailboxThread
    BY <1>1, <1>3, <1>6, <2>1 DEF MInv, SlotByPlace
  <2>2. CASE u # MailboxThread
    BY <1>3, <1>6, <2>2 DEF MInv, SlotByPlace, Thread
  <2>. QED
    BY <2>1, <2>2
<1>9. SlotOwned' /\ ReplyPending'
  BY <1>3 DEF MInv, SlotOwned, ReplyPending, MbxSlot
<1>10. FlagState'
  BY <1>3, <1>6 DEF MInv, FlagState
<1>11. SemaphoreState'
  BY <1>1, <1>3 DEF SemaphoreState
<1>12. QueueState'
  BY <1>1, <1>3, <1>4, <1>5, <1>6, TaskAssumption DEF MInv, QueueState, InQueue
<1>. QED
  BY <1>7, <1>8, <1>9, <1>10, <1>11, <1>12 DEF MInv

\* A thread gets an empty slot.
LEMMA AcquireSlotMInv ==
    ASSUME MInv, NEW t \in Thread, acquire_empty_slot(t)
    PROVE  MInv'
<1>1. PICK s \in MbxSlot : /\ queue[s].state = "empty"
                           /\ queue' = [queue EXCEPT ![s].state = "held"]
                           /\ my_slot' = [my_slot EXCEPT ![t] = s]
  BY DEF acquire_empty_slot, EmptySlots
<1>2. /\ mbx[t] = "slot" /\ my_slot[t] = NoSlot
      /\ mbx' = [mbx EXCEPT ![t] = "stats_read"]
      /\ UNCHANGED <<ns_lock, mq, req, flags, irq, nr_empty, nr_tx, nr_used_slots>>
  BY DEF acquire_empty_slot, Goto, osVars, statVars, MInv, SlotByPlace
<1>3. /\ mbx'[t] = "stats_read" /\ my_slot'[t] = s
      /\ \A u \in Thread : u # t => mbx'[u] = mbx[u] /\ my_slot'[u] = my_slot[u]
  BY <1>1, <1>2 DEF MInv, MailboxTypeOK
<1>4. /\ queue'[s].state = "held"
      /\ \A q \in MbxSlot : q # s => queue'[q] = queue[q]
  BY <1>1 DEF MInv, MailboxTypeOK
<1>5. s # NoSlot
  BY SlotAssumption DEF MbxSlot, NoSlot
<1>6. \A u \in Thread : my_slot[u] # s
  BY <1>1, <1>5, UsedSlot
<1>7. MailboxTypeOK'
  <2>1. queue' \in [MbxSlot -> [state : {"empty", "held", "pend", "replied", "woken"},
                                owner : Task \cup {NoTask}]]
    BY <1>1 DEF MInv, MailboxTypeOK
  <2>2. mbx'[MailboxThread] \in MtLabel /\ \A u \in Task : mbx'[u] # "receive"
    BY <1>3 DEF MInv, MailboxTypeOK, MtLabel, Thread
  <2>3. /\ mbx' \in [Thread -> TaskLabel \cup {"receive"}]
        /\ my_slot' \in [Thread -> MbxSlot \cup {NoSlot}]
    BY <1>1, <1>2 DEF MInv, MailboxTypeOK, TaskLabel
  <2>. QED
    BY <1>2, <2>1, <2>2, <2>3 DEF MInv, MailboxTypeOK
<1>8. SlotByPlace'
  <2>. SUFFICES ASSUME NEW u \in Thread PROVE SlotByPlace!(u)'
    BY DEF SlotByPlace
  <2>1. CASE u = t
    BY <1>3, <1>4, <1>5, <2>1
  <2>2. CASE u # t
    <3>1. my_slot[u] # NoSlot => queue'[my_slot[u]] = queue[my_slot[u]]
      BY <1>4, <1>6 DEF MInv, MailboxTypeOK
    <3>. QED
      BY <1>3, <2>2, <3>1 DEF MInv, SlotByPlace
  <2>. QED
    BY <2>1, <2>2
<1>9. SlotOwned'
  <2>1. \A u, v \in Thread : my_slot'[u] = my_slot'[v] /\ my_slot'[u] # NoSlot => u = v
    BY <1>3, <1>6 DEF MInv, SlotOwned
  <2>2. ASSUME NEW q \in MbxSlot, queue'[q].state # "empty"
        PROVE  \E u \in Thread : my_slot'[u] = q
    <3>1. CASE q = s
      BY <1>3, <3>1
    <3>2. CASE q # s
      <4>1. PICK u \in Thread : my_slot[u] = q
        BY <1>4, <2>2, <3>2 DEF MInv, SlotOwned
      <4>2. my_slot'[u] = q
        BY <1>2, <1>3, <4>1, SlotAssumption DEF MbxSlot, NoSlot
      <4>. QED
        BY <4>2
    <3>. QED
      BY <3>1, <3>2
  <2>. QED
    BY <2>1, <2>2 DEF SlotOwned
<1>10. FlagState'
  <2>. SUFFICES ASSUME NEW u \in Task PROVE FlagState!(u)'
    BY DEF FlagState
  <2>1. u \in Thread
    BY DEF Thread
  <2>2. CASE u = t
    BY <1>2, <1>3, <2>2 DEF MInv, FlagState
  <2>3. CASE u # t
    <3>1. my_slot[u] # NoSlot => queue'[my_slot[u]] = queue[my_slot[u]]
      BY <1>4, <1>6, <2>1 DEF MInv, MailboxTypeOK
    <3>. QED
      BY <1>2, <1>3, <2>1, <2>3, <3>1 DEF MInv, FlagState
  <2>. QED
    BY <2>2, <2>3
<1>11. ReplyPending'
  BY <1>2, <1>4 DEF MInv, ReplyPending
<1>12. SemaphoreState'
  <2>1. CASE ns_lock # NULL
    <3>1. t \in Task
      BY <1>2, <2>1 DEF MInv, SemaphoreState, Thread
    <3>2. Holders' = Holders
      BY <1>2, <1>3, <3>1 DEF Holders, Thread
    <3>. QED
      BY <1>2, <1>3, <2>1, <3>1, <3>2, TaskAssumption DEF MInv, SemaphoreState, Thread
  <2>2. CASE ns_lock = NULL
    BY <1>2, <2>2 DEF SemaphoreState
  <2>. QED
    BY <2>1, <2>2
<1>13. QueueState'
  <2>1. CASE mq # NULL
    <3>1. t = MailboxThread
      BY <1>2, <2>1 DEF MInv, QueueState, Thread
    <3>. QED
      BY <1>2, <1>3, <2>1, <3>1, TaskAssumption DEF MInv, QueueState, InQueue, Thread
  <2>2. CASE mq = NULL
    BY <1>2, <2>2 DEF QueueState
  <2>. QED
    BY <2>1, <2>2
<1>. QED
  BY <1>7, <1>8, <1>9, <1>10, <1>11, <1>12, <1>13 DEF MInv

\* Both sections of the statistics move a thread that has its slot on.
LEMMA StatsMInv ==
    ASSUME MInv, NEW t \in Thread, stats_update_read(t) \/ stats_update_add(t)
    PROVE  MInv'
<1>1. /\ mbx[t] \in {"stats_read", "stats_add"}
      /\ \E l \in {"stats_add", "post"} : mbx' = [mbx EXCEPT ![t] = l]
      /\ UNCHANGED <<ns_lock, mq, req, flags, queue, irq, my_slot>>
  BY DEF stats_update_read, stats_update_add, Goto, osVars, queueVars
<1>2. /\ mbx'[t] \in {"stats_add", "post"}
      /\ \A u \in Thread : u # t => mbx'[u] = mbx[u]
  BY <1>1 DEF MInv, MailboxTypeOK
<1>3. MailboxTypeOK'
  <2>1. /\ nr_empty' \in [Thread -> 0 .. NUM_MAILBOX_QUEUE_SLOT]
        /\ nr_tx' \in Nat /\ nr_used_slots' \in Nat
    <3>1. CASE stats_update_read(t)
      BY <3>1, EmptySlotsCounted DEF MInv, MailboxTypeOK, stats_update_read
    <3>2. CASE stats_update_add(t)
      BY <3>2, SlotAssumption DEF MInv, MailboxTypeOK, stats_update_add
    <3>. QED
      BY <3>1, <3>2
  <2>2. mbx'[MailboxThread] \in MtLabel /\ \A u \in Task : mbx'[u] # "receive"
    BY <1>2 DEF MInv, MailboxTypeOK, MtLabel, Thread
  <2>3. mbx' \in [Thread -> TaskLabel \cup {"receive"}]
    BY <1>1 DEF MInv, MailboxTypeOK, TaskLabel
  <2>. QED
    BY <1>1, <2>1, <2>2, <2>3 DEF MInv, MailboxTypeOK
<1>4. SlotByPlace'
  <2>. SUFFICES ASSUME NEW u \in Thread PROVE SlotByPlace!(u)'
    BY DEF SlotByPlace
  <2>1. CASE u = t
    BY <1>1, <1>2, <2>1 DEF MInv, SlotByPlace
  <2>2. CASE u # t
    BY <1>1, <1>2, <2>2 DEF MInv, SlotByPlace
  <2>. QED
    BY <2>1, <2>2
<1>5. SlotOwned' /\ ReplyPending'
  BY <1>1 DEF MInv, SlotOwned, ReplyPending, MbxSlot
<1>6. FlagState'
  BY <1>1, <1>2 DEF MInv, FlagState, Thread
<1>7. SemaphoreState'
  <2>1. CASE ns_lock # NULL
    <3>1. t \in Task
      BY <1>1, <2>1 DEF MInv, SemaphoreState, Thread
    <3>2. Holders' = Holders
      BY <1>1, <1>2, <3>1 DEF Holders, Thread
    <3>. QED
      BY <1>1, <1>2, <2>1, <3>1, <3>2, TaskAssumption DEF MInv, SemaphoreState, Thread
  <2>2. CASE ns_lock = NULL
    BY <1>1, <2>2 DEF SemaphoreState
  <2>. QED
    BY <2>1, <2>2
<1>8. QueueState'
  <2>1. CASE mq # NULL
    <3>1. t = MailboxThread
      BY <1>1, <2>1 DEF MInv, QueueState, Thread
    <3>. QED
      BY <1>1, <1>2, <2>1, <3>1, TaskAssumption DEF MInv, QueueState, InQueue, Thread
  <2>2. CASE mq = NULL
    BY <1>1, <2>2 DEF QueueState
  <2>. QED
    BY <2>1, <2>2
<1>. QED
  BY <1>3, <1>4, <1>5, <1>6, <1>7, <1>8 DEF MInv

\* The statistics are set back between two tests.
LEMMA ReinitMInv ==
    ASSUME MInv, stats_reinit
    PROVE  MInv'
<1>1. nr_tx' = 0 /\ nr_used_slots' = 0
      /\ UNCHANGED <<ns_lock, mq, req, flags, queue, irq, my_slot, nr_empty, mbx>>
  BY DEF stats_reinit, osVars, queueVars
<1>2. Holders' = Holders
  BY <1>1 DEF Holders
<1>3. MailboxTypeOK'
  BY <1>1 DEF MInv, MailboxTypeOK
<1>4. SlotByPlace' /\ SlotOwned' /\ FlagState' /\ ReplyPending'
  BY <1>1 DEF MInv, SlotByPlace, SlotOwned, FlagState, ReplyPending
<1>5. SemaphoreState'
  BY <1>1, <1>2 DEF MInv, SemaphoreState
<1>6. QueueState'
  BY <1>1 DEF MInv, QueueState, InQueue
<1>. QED
  BY <1>3, <1>4, <1>5, <1>6 DEF MInv

\* A thread fills its slot and notifies the secure core.
LEMMA PostMInv ==
    ASSUME MInv, NEW t \in Thread, post(t)
    PROVE  MInv'
<1>. DEFINE owner == TaskHandle(t)
            s == my_slot[t]
<1>1. /\ mbx[t] = "post"
      /\ queue' = [queue EXCEPT ![s] = [state |-> "pend", owner |-> owner]]
      /\ my_slot' = [my_slot EXCEPT ![t] = NoSlot, ![owner] = s]
      /\ mbx' = [mbx EXCEPT ![t] = IF t = MailboxThread THEN "receive" ELSE "wait"]
      /\ req' = NoTask
      /\ UNCHANGED <<ns_lock, mq, flags, irq, nr_empty, nr_tx, nr_used_slots>>
  BY DEF post, Goto, statVars
<1>2. s \in MbxSlot /\ s # NoSlot /\ queue[s].state = "held"
  <2>1. s # NoSlot /\ queue[s].state = "held"
    BY <1>1 DEF MInv, SlotByPlace
  <2>. QED
    BY <2>1, UsedSlot
<1>3. \/ /\ t = MailboxThread /\ owner = req /\ owner \in Task /\ owner # t
         /\ mbx[owner] = "wait" /\ my_slot[owner] = NoSlot
         /\ mq # NULL /\ ns_lock = NULL /\ mq \in Mq
      \/ /\ t \in Task /\ owner = t /\ t # MailboxThread
         /\ ns_lock # NULL /\ mq = NULL
  <2>1. CASE t = MailboxThread
    <3>1. ns_lock = NULL /\ mq # NULL /\ mq \in Mq
      BY <1>1, <2>1, NotNull DEF MInv, MailboxTypeOK, SemaphoreState
    <3>2. req # NoTask /\ req \in Task
      BY <1>1, <2>1, <3>1 DEF MInv, MailboxTypeOK, QueueState
    <3>3. mbx[req] = "wait" /\ my_slot[req] = NoSlot
      BY <3>1, <3>2 DEF MInv, QueueState, InQueue
    <3>. QED
      BY <2>1, <3>1, <3>2, <3>3, TaskAssumption DEF TaskHandle
  <2>2. CASE t # MailboxThread
    <3>1. t \in Task
      BY <2>2 DEF Thread
    <3>2. mq = NULL
      BY <1>1, <3>1 DEF MInv, QueueState
    <3>. QED
      BY <2>2, <3>1, <3>2, NotNull DEF TaskHandle, MInv, MailboxTypeOK
  <2>. QED
    BY <2>1, <2>2
<1>. HIDE DEF owner, s
<1>4. owner \in Task /\ owner \in Thread
  BY <1>3 DEF Thread
<1>5. /\ mbx'[owner] = "wait" /\ my_slot'[owner] = s
      /\ t # owner => mbx'[t] = "receive" /\ my_slot'[t] = NoSlot
      /\ \A u \in Thread : u # t /\ u # owner => mbx'[u] = mbx[u] /\ my_slot'[u] = my_slot[u]
  <2>1. mbx \in [Thread -> TaskLabel \cup {"receive"}] /\ my_slot \in [Thread -> MbxSlot \cup {NoSlot}]
    BY DEF MInv, MailboxTypeOK
  <2>2. CASE t = MailboxThread
    BY <1>1, <1>3, <1>4, <2>1, <2>2
  <2>3. CASE t # MailboxThread
    BY <1>1, <1>3, <1>4, <2>1, <2>3
  <2>. QED
    BY <2>2, <2>3
<1>6. /\ queue'[s].state = "pend" /\ queue'[s].owner = owner
      /\ \A q \in MbxSlot : q # s => queue'[q] = queue[q]
  BY <1>1, <1>2 DEF MInv, MailboxTypeOK
<1>7. \A u \in Thread : u # t => my_slot[u] # s
  BY <1>2 DEF MInv, SlotOwned, s
<1>8. MailboxTypeOK'
  <2>1. queue' \in [MbxSlot -> [state : {"empty", "held", "pend", "replied", "woken"},
                                owner : Task \cup {NoTask}]]
    <3>1. [state |-> "pend", owner |-> owner]
             \in [state : {"empty", "held", "pend", "replied", "woken"}, owner : Task \cup {NoTask}]
      BY <1>4
    <3>. QED
      BY <1>1, <3>1 DEF MInv, MailboxTypeOK
  <2>2. mbx'[MailboxThread] \in MtLabel /\ \A u \in Task : mbx'[u] # "receive"
    BY <1>3, <1>5, TaskAssumption DEF MInv, MailboxTypeOK, MtLabel, Thread
  <2>3. mbx' \in [Thread -> TaskLabel \cup {"receive"}]
    BY <1>1 DEF MInv, MailboxTypeOK, TaskLabel
  <2>4. my_slot' \in [Thread -> MbxSlot \cup {NoSlot}]
    BY <1>1, <1>2 DEF MInv, MailboxTypeOK
  <2>. QED
    BY <1>1, <2>1, <2>2, <2>3, <2>4 DEF MInv, MailboxTypeOK
<1>9. SlotByPlace'
  <2>. SUFFICES ASSUME NEW u \in Thread PROVE SlotByPlace!(u)'
    BY DEF SlotByPlace
  <2>1. CASE u = owner
    BY <1>2, <1>5, <1>6, <2>1
  <2>2. CASE u = t /\ u # owner
    BY <1>5, <2>2
  <2>3. CASE u # t /\ u # owner
    <3>1. my_slot[u] # NoSlot => queue'[my_slot[u]] = queue[my_slot[u]]
      BY <1>6, <1>7, <2>3 DEF MInv, MailboxTypeOK
    <3>. QED
      BY <1>5, <2>3, <3>1 DEF MInv, SlotByPlace
  <2>. QED
    BY <2>1, <2>2, <2>3
<1>10. SlotOwned'
  <2>1. \A u, v \in Thread : my_slot'[u] = my_slot'[v] /\ my_slot'[u] # NoSlot => u = v
    BY <1>5, <1>7 DEF MInv, SlotOwned
  <2>2. ASSUME NEW q \in MbxSlot, queue'[q].state # "empty"
        PROVE  \E u \in Thread : my_slot'[u] = q
    <3>1. CASE q = s
      BY <1>4, <1>5, <3>1
    <3>2. CASE q # s
      <4>1. PICK u \in Thread : my_slot[u] = q
        BY <1>6, <2>2, <3>2 DEF MInv, SlotOwned
      <4>2. u # t /\ q # NoSlot
        BY <3>2, <4>1, SlotAssumption DEF s, MbxSlot, NoSlot
      <4>3. u # owner
        BY <1>3, <4>1, <4>2
      <4>. QED
        BY <1>5, <4>1, <4>2, <4>3
    <3>. QED
      BY <3>1, <3>2
  <2>. QED
    BY <2>1, <2>2 DEF SlotOwned
<1>11. FlagState'
  <2>. SUFFICES ASSUME NEW u \in Task PROVE FlagState!(u)'
    BY DEF FlagState
  <2>1. u \in Thread
    BY DEF Thread
  <2>2. CASE u = owner
    <3>1. flags[u] = {}
      BY <1>1, <1>3, <2>2 DEF MInv, FlagState
    <3>. QED
      BY <1>1, <1>5, <1>6, <2>2, <3>1
  <2>3. CASE u # owner
    <3>1. u # t
      BY <1>3, <2>3, TaskAssumption
    <3>2. my_slot[u] # NoSlot => queue'[my_slot[u]] = queue[my_slot[u]]
      BY <1>6, <1>7, <2>1, <3>1 DEF MInv, MailboxTypeOK
    <3>3. flags'[u] = flags[u] /\ mbx'[u] = mbx[u] /\ my_slot'[u] = my_slot[u]
      BY <1>1, <1>5, <2>1, <2>3, <3>1
    <3>. QED
      BY <3>2, <3>3 DEF MInv, FlagState
  <2>. QED
    BY <2>2, <2>3
<1>12. ReplyPending'
  BY <1>1, <1>6 DEF MInv, ReplyPending
<1>13. SemaphoreState'
  <2>1. CASE ns_lock # NULL
    <3>1. t \in Task /\ owner = t /\ t # MailboxThread
      BY <1>3, <2>1
    <3>2. Holders' = Holders
      BY <1>1, <1>5, <3>1 DEF Holders, Thread
    <3>. QED
      BY <1>1, <1>2, <1>5, <2>1, <3>1, <3>2, TaskAssumption DEF MInv, SemaphoreState, Thread
  <2>2. CASE ns_lock = NULL
    BY <1>1, <2>2 DEF SemaphoreState
  <2>. QED
    BY <2>1, <2>2
<1>14. QueueState'
  <2>1. CASE mq # NULL
    <3>1. t = MailboxThread /\ owner = req /\ owner # t
      BY <1>3, <2>1
    <3>2. ~Among(NoTask, mq.msgs)
      <4>1. mq.msgs \in Seq(Task)
        BY <1>3, <2>1 DEF Mq
      <4>. QED
        BY <4>1, TaskAssumption DEF Among
    <3>. QED
      BY <1>1, <1>2, <1>4, <1>5, <2>1, <3>1, <3>2, TaskAssumption
      DEF MInv, QueueState, InQueue, Thread
  <2>2. CASE mq = NULL
    BY <1>1, <2>2 DEF QueueState
  <2>. QED
    BY <2>1, <2>2
<1>. QED
  BY <1>8, <1>9, <1>10, <1>11, <1>12, <1>13, <1>14 DEF MInv

\* The secure core answers a pending slot and notifies.
LEMMA SecureReplyMInv ==
    ASSUME MInv, NEW s \in MbxSlot, secure_reply(s)
    PROVE  MInv'
<1>1. /\ queue[s].state = "pend"
      /\ queue' = [queue EXCEPT ![s].state = "replied"]
      /\ irq' = TRUE
      /\ UNCHANGED <<ns_lock, mq, req, flags, my_slot, nr_empty, nr_tx, nr_used_slots, mbx>>
  BY DEF secure_reply, osVars, statVars
<1>2. /\ queue'[s].state = "replied" /\ queue'[s].owner = queue[s].owner
      /\ \A q \in MbxSlot : q # s => queue'[q] = queue[q]
  BY <1>1 DEF MInv, MailboxTypeOK
<1>3. MailboxTypeOK'
  <2>1. queue' \in [MbxSlot -> [state : {"empty", "held", "pend", "replied", "woken"},
                                owner : Task \cup {NoTask}]]
    BY <1>1 DEF MInv, MailboxTypeOK
  <2>. QED
    BY <1>1, <2>1 DEF MInv, MailboxTypeOK
<1>4. ASSUME NEW u \in Thread, my_slot[u] = s
      PROVE  mbx[u] = "wait" /\ queue[s].owner = u
  <2>1. my_slot[u] # NoSlot
    BY <1>4, SlotAssumption DEF MbxSlot, NoSlot
  <2>. QED
    BY <1>1, <1>4, <2>1, PostedSlot
<1>5. SlotByPlace'
  <2>. SUFFICES ASSUME NEW u \in Thread PROVE SlotByPlace!(u)'
    BY DEF SlotByPlace
  <2>1. CASE my_slot[u] = s
    BY <1>1, <1>2, <1>4, <2>1
  <2>2. CASE my_slot[u] # s
    <3>1. my_slot[u] # NoSlot => queue'[my_slot[u]] = queue[my_slot[u]]
      BY <1>2, <2>2 DEF MInv, MailboxTypeOK
    <3>. QED
      BY <1>1, <3>1 DEF MInv, SlotByPlace
  <2>. QED
    BY <2>1, <2>2
<1>6. SlotOwned'
  BY <1>1, <1>2 DEF MInv, SlotOwned
<1>7. FlagState'
  <2>. SUFFICES ASSUME NEW u \in Task PROVE FlagState!(u)'
    BY DEF FlagState
  <2>1. u \in Thread
    BY DEF Thread
  <2>2. CASE my_slot[u] = s
    BY <1>1, <1>2, <2>2 DEF MInv, FlagState
  <2>3. CASE my_slot[u] # s
    <3>1. my_slot[u] # NoSlot => queue'[my_slot[u]] = queue[my_slot[u]]
      BY <1>2, <2>1, <2>3 DEF MInv, MailboxTypeOK
    <3>. QED
      BY <1>1, <3>1 DEF MInv, FlagState
  <2>. QED
    BY <2>2, <2>3
<1>8. ReplyPending'
  BY <1>1 DEF ReplyPending
<1>9. SemaphoreState'
  <2>1. Holders' = Holders
    BY <1>1 DEF Holders
  <2>. QED
    BY <1>1, <2>1 DEF MInv, SemaphoreState
<1>10. QueueState'
  BY <1>1 DEF MInv, QueueState, InQueue
<1>. QED
  BY <1>3, <1>5, <1>6, <1>7, <1>8, <1>9, <1>10 DEF MInv

\* The interrupt handler wakes the owners of the answered slots.
LEMMA WakeMInv ==
    ASSUME MInv, wake_task_isr
    PROVE  MInv'
<1>. DEFINE replied == {s \in MbxSlot : queue[s].state = "replied"}
            owners == {queue[s].owner : s \in replied}
<1>1. /\ queue' = [s \in MbxSlot |->
                      IF s \in replied THEN [queue[s] EXCEPT !.state = "woken"] ELSE queue[s]]
      /\ flags' = [t \in Task |-> IF t \in owners THEN flags[t] \cup MAILBOX_THREAD_FLAG ELSE flags[t]]
      /\ irq' = FALSE
      /\ UNCHANGED <<ns_lock, mq, req, my_slot, nr_empty, nr_tx, nr_used_slots, mbx>>
  BY FlagResult DEF wake_task_isr, wake, statVars
<1>2. \A s \in MbxSlot :
         /\ queue[s].state = "replied" => queue'[s].state = "woken" /\ queue'[s].owner = queue[s].owner
         /\ queue[s].state # "replied" => queue'[s] = queue[s]
  BY <1>1 DEF MInv, MailboxTypeOK
<1>3. MailboxTypeOK'
  <2>1. queue' \in [MbxSlot -> [state : {"empty", "held", "pend", "replied", "woken"},
                                owner : Task \cup {NoTask}]]
    BY <1>1 DEF MInv, MailboxTypeOK
  <2>2. flags' \in [Task -> SUBSET (0 .. 31)]
    <3>1. MAILBOX_THREAD_FLAG \subseteq 0 .. 31
      BY DEF MAILBOX_THREAD_FLAG
    <3>. QED
      BY <1>1, <3>1 DEF MInv, MailboxTypeOK
  <2>. QED
    BY <1>1, <2>1, <2>2 DEF MInv, MailboxTypeOK
<1>4. ASSUME NEW u \in Thread, my_slot[u] # NoSlot, queue[my_slot[u]].state = "replied"
      PROVE  mbx[u] = "wait" /\ queue[my_slot[u]].owner = u
  BY <1>4, PostedSlot
<1>5. SlotByPlace'
  <2>. SUFFICES ASSUME NEW u \in Thread PROVE SlotByPlace!(u)'
    BY DEF SlotByPlace
  <2>1. CASE my_slot[u] # NoSlot /\ queue[my_slot[u]].state = "replied"
    <3>1. my_slot[u] \in MbxSlot
      BY <2>1, UsedSlot
    <3>. QED
      BY <1>1, <1>2, <1>4, <2>1, <3>1
  <2>2. CASE ~(my_slot[u] # NoSlot /\ queue[my_slot[u]].state = "replied")
    <3>1. my_slot[u] # NoSlot => queue'[my_slot[u]] = queue[my_slot[u]]
      BY <1>2, <2>2 DEF MInv, MailboxTypeOK
    <3>. QED
      BY <1>1, <3>1 DEF MInv, SlotByPlace
  <2>. QED
    BY <2>1, <2>2
<1>6. SlotOwned'
  BY <1>1, <1>2 DEF MInv, SlotOwned
<1>7. FlagState'
  <2>. SUFFICES ASSUME NEW u \in Task PROVE FlagState!(u)'
    BY DEF FlagState
  <2>1. u \in Thread
    BY DEF Thread
  <2>2. CASE my_slot[u] # NoSlot /\ queue[my_slot[u]].state = "replied"
    <3>1. my_slot[u] \in MbxSlot /\ mbx[u] = "wait" /\ queue[my_slot[u]].owner = u
      BY <1>4, <2>1, <2>2, UsedSlot
    <3>2. flags[u] = {}
      BY <2>2 DEF MInv, FlagState
    <3>3. u \in owners
      BY <2>2, <3>1
    <3>4. flags'[u] = MAILBOX_THREAD_FLAG
      BY <1>1, <3>2, <3>3
    <3>5. queue'[my_slot[u]].state = "woken"
      BY <1>2, <2>2, <3>1
    <3>. QED
      BY <1>1, <2>2, <3>1, <3>4, <3>5
  <2>3. CASE ~(my_slot[u] # NoSlot /\ queue[my_slot[u]].state = "replied")
    <3>1. my_slot[u] # NoSlot => queue'[my_slot[u]] = queue[my_slot[u]]
      BY <1>2, <2>1, <2>3 DEF MInv, MailboxTypeOK
    <3>2. u \notin owners
      <4>. SUFFICES ASSUME NEW s \in MbxSlot, queue[s].state = "replied", queue[s].owner = u
                    PROVE  FALSE
        OBVIOUS
      <4>1. PICK v \in Thread : my_slot[v] = s
        BY DEF MInv, SlotOwned
      <4>2. s # NoSlot
        BY SlotAssumption DEF MbxSlot, NoSlot
      <4>3. v = u
        BY <1>4, <4>1, <4>2
      <4>. QED
        BY <2>3, <4>1, <4>2, <4>3
    <3>3. flags'[u] = flags[u]
      BY <1>1, <3>2
    <3>. QED
      BY <1>1, <3>1, <3>3 DEF MInv, FlagState
  <2>. QED
    BY <2>2, <2>3
<1>8. ReplyPending'
  BY <1>2 DEF ReplyPending
<1>9. SemaphoreState'
  <2>1. Holders' = Holders
    BY <1>1 DEF Holders
  <2>. QED
    BY <1>1, <2>1 DEF MInv, SemaphoreState
<1>10. QueueState'
  BY <1>1 DEF MInv, QueueState, InQueue
<1>. QED
  BY <1>3, <1>5, <1>6, <1>7, <1>8, <1>9, <1>10 DEF MInv

\* A thread finds its answer or goes on waiting.
LEMMA WaitReplyMInv ==
    ASSUME MInv, NEW t \in Thread, wait_reply(t)
    PROVE  MInv'
<1>1. mbx[t] = "wait" /\ t \in Task
  BY DEF wait_reply, MInv, MailboxTypeOK, MtLabel, Thread
<1>2. /\ MAILBOX_THREAD_FLAG \subseteq flags[t]
      /\ flags' = [flags EXCEPT ![t] = flags[t] \ MAILBOX_THREAD_FLAG]
      /\ mbx' = [mbx EXCEPT ![t] = "rx"]
      /\ UNCHANGED <<ns_lock, mq, req, queue, irq, my_slot, nr_empty, nr_tx, nr_used_slots>>
  <2>. DEFINE r == os_wrapper_thread_wait_flag(flags[t], MAILBOX_THREAD_FLAG, OS_WRAPPER_WAIT_FOREVER)
  <2>1. /\ r.ret # Blocked
        /\ flags' = [flags EXCEPT ![t] = r.obj]
        /\ mbx' = [mbx EXCEPT ![t] = "rx"]
        /\ UNCHANGED <<ns_lock, mq, req, queue, irq, my_slot, nr_empty, nr_tx, nr_used_slots>>
    BY DEF wait_reply, Goto, queueVars, statVars
  <2>2. MAILBOX_THREAD_FLAG \subseteq flags[t] /\ r.obj = flags[t] \ MAILBOX_THREAD_FLAG
    BY <2>1, FlagResult
  <2>. HIDE DEF r
  <2>. QED
    BY <2>1, <2>2
<1>3. /\ my_slot[t] # NoSlot /\ queue[my_slot[t]].state = "woken"
      /\ flags[t] = MAILBOX_THREAD_FLAG
  <2>1. MAILBOX_THREAD_FLAG # {}
    BY DEF MAILBOX_THREAD_FLAG
  <2>2. flags[t] # {}
    BY <1>2, <2>1
  <2>. QED
    BY <1>1, <2>2 DEF MInv, FlagState
<1>4. /\ mbx'[t] = "rx" /\ flags'[t] = {}
      /\ \A u \in Thread : u # t => mbx'[u] = mbx[u]
      /\ \A u \in Task : u # t => flags'[u] = flags[u]
  BY <1>1, <1>2, <1>3 DEF MInv, MailboxTypeOK
<1>5. MailboxTypeOK'
  <2>1. mbx' \in [Thread -> TaskLabel \cup {"receive"}]
    BY <1>2 DEF MInv, MailboxTypeOK, TaskLabel
  <2>2. mbx'[MailboxThread] \in MtLabel /\ \A u \in Task : mbx'[u] # "receive"
    BY <1>1, <1>4, TaskAssumption DEF MInv, MailboxTypeOK, Thread
  <2>3. flags' \in [Task -> SUBSET (0 .. 31)]
    BY <1>1, <1>2 DEF MInv, MailboxTypeOK
  <2>. QED
    BY <1>2, <2>1, <2>2, <2>3 DEF MInv, MailboxTypeOK
<1>6. SlotByPlace'
  <2>. SUFFICES ASSUME NEW u \in Thread PROVE SlotByPlace!(u)'
    BY DEF SlotByPlace
  <2>1. CASE u = t
    <3>1. queue[my_slot[t]].owner = t /\ my_slot[t] \in MbxSlot
      BY <1>1, <1>3, UsedSlot DEF MInv, SlotByPlace
    <3>2. queue[my_slot[t]] = [state |-> "woken", owner |-> t]
      BY <1>3, <3>1 DEF MInv, MailboxTypeOK
    <3>. QED
      BY <1>2, <1>3, <1>4, <2>1, <3>2
  <2>2. CASE u # t
    BY <1>2, <1>4, <2>2 DEF MInv, SlotByPlace
  <2>. QED
    BY <2>1, <2>2
<1>7. SlotOwned' /\ ReplyPending'
  BY <1>2 DEF MInv, SlotOwned, ReplyPending, MbxSlot
<1>8. FlagState'
  BY <1>2, <1>4 DEF MInv, FlagState, Thread
<1>9. SemaphoreState'
  <2>1. Holders' = Holders
    BY <1>1, <1>4 DEF Holders, Thread
  <2>. QED
    BY <1>1, <1>2, <1>4, <2>1, TaskAssumption DEF MInv, SemaphoreState, Thread
<1>10. QueueState'
  BY <1>1, <1>2, <1>3, <1>4, TaskAssumption DEF MInv, QueueState, InQueue, Thread
<1>. QED
  BY <1>5, <1>6, <1>7, <1>8, <1>9, <1>10 DEF MInv

\* A thread takes its answer and frees its slot.
LEMMA RxReplyMInv ==
    ASSUME MInv, NEW t \in Thread, rx_reply(t)
    PROVE  MInv'
<1>. DEFINE s == my_slot[t]
<1>1. mbx[t] = "rx" /\ t \in Task
  BY DEF rx_reply, MInv, MailboxTypeOK, MtLabel, Thread
<1>2. s \in MbxSlot /\ s # NoSlot
  <2>1. s # NoSlot
    BY <1>1 DEF MInv, SlotByPlace
  <2>. QED
    BY <2>1, UsedSlot
<1>3. /\ queue' = [queue EXCEPT ![s] = [state |-> "empty", owner |-> NoTask]]
      /\ my_slot' = [my_slot EXCEPT ![t] = NoSlot]
      /\ mbx' = [mbx EXCEPT ![t] = IF ns_lock = NULL THEN "idle" ELSE "unlock"]
      /\ UNCHANGED <<ns_lock, mq, req, flags, irq, nr_empty, nr_tx, nr_used_slots>>
  BY DEF rx_reply, Goto, osVars, statVars
<1>4. \A u \in Thread : u # t => my_slot[u] # s
  BY <1>2 DEF MInv, SlotOwned
<1>. HIDE DEF s
<1>5. /\ my_slot'[t] = NoSlot
      /\ mbx'[t] = IF ns_lock = NULL THEN "idle" ELSE "unlock"
      /\ \A u \in Thread : u # t => mbx'[u] = mbx[u] /\ my_slot'[u] = my_slot[u]
  BY <1>3 DEF MInv, MailboxTypeOK
<1>6. /\ queue'[s].state = "empty"
      /\ \A q \in MbxSlot : q # s => queue'[q] = queue[q]
  BY <1>2, <1>3 DEF MInv, MailboxTypeOK
<1>7. MailboxTypeOK'
  <2>1. queue' \in [MbxSlot -> [state : {"empty", "held", "pend", "replied", "woken"},
                                owner : Task \cup {NoTask}]]
    BY <1>3 DEF MInv, MailboxTypeOK
  <2>2. mbx' \in [Thread -> TaskLabel \cup {"receive"}]
    BY <1>3 DEF MInv, MailboxTypeOK, TaskLabel
  <2>3. mbx'[MailboxThread] \in MtLabel /\ \A u \in Task : mbx'[u] # "receive"
    BY <1>1, <1>5, TaskAssumption DEF MInv, MailboxTypeOK, Thread
  <2>4. my_slot' \in [Thread -> MbxSlot \cup {NoSlot}]
    BY <1>3 DEF MInv, MailboxTypeOK
  <2>. QED
    BY <1>3, <2>1, <2>2, <2>3, <2>4 DEF MInv, MailboxTypeOK
<1>8. SlotByPlace'
  <2>. SUFFICES ASSUME NEW u \in Thread PROVE SlotByPlace!(u)'
    BY DEF SlotByPlace
  <2>1. CASE u = t
    BY <1>5, <2>1
  <2>2. CASE u # t
    <3>1. my_slot[u] # NoSlot => queue'[my_slot[u]] = queue[my_slot[u]]
      BY <1>4, <1>6, <2>2 DEF MInv, MailboxTypeOK
    <3>. QED
      BY <1>5, <2>2, <3>1 DEF MInv, SlotByPlace
  <2>. QED
    BY <2>1, <2>2
<1>9. SlotOwned'
  <2>1. \A u, v \in Thread : my_slot'[u] = my_slot'[v] /\ my_slot'[u] # NoSlot => u = v
    BY <1>5 DEF MInv, SlotOwned
  <2>2. ASSUME NEW q \in MbxSlot, queue'[q].state # "empty"
        PROVE  \E u \in Thread : my_slot'[u] = q
    <3>1. q # s
      BY <1>6, <2>2
    <3>2. PICK u \in Thread : my_slot[u] = q
      BY <1>6, <2>2, <3>1 DEF MInv, SlotOwned
    <3>3. u # t
      BY <3>1, <3>2 DEF s
    <3>. QED
      BY <1>5, <3>2, <3>3
  <2>. QED
    BY <2>1, <2>2 DEF SlotOwned
<1>10. FlagState'
  <2>. SUFFICES ASSUME NEW u \in Task PROVE FlagState!(u)'
    BY DEF FlagState
  <2>1. u \in Thread
    BY DEF Thread
  <2>2. CASE u = t
    <3>1. flags'[u] = {}
      BY <1>1, <1>3, <2>2 DEF MInv, FlagState
    <3>. QED
      BY <1>5, <2>2, <3>1
  <2>3. CASE u # t
    <3>1. my_slot[u] # NoSlot => queue'[my_slot[u]] = queue[my_slot[u]]
      BY <1>4, <1>6, <2>1, <2>3 DEF MInv, MailboxTypeOK
    <3>2. flags'[u] = flags[u] /\ mbx'[u] = mbx[u] /\ my_slot'[u] = my_slot[u]
      BY <1>3, <1>5, <2>1, <2>3
    <3>. QED
      BY <3>1, <3>2 DEF MInv, FlagState
  <2>. QED
    BY <2>2, <2>3
<1>11. ReplyPending'
  BY <1>3, <1>6 DEF MInv, ReplyPending
<1>12. SemaphoreState'
  <2>1. CASE ns_lock # NULL
    <3>1. mbx'[t] = "unlock"
      BY <1>5, <2>1
    <3>2. Holders' = Holders
      BY <1>1, <1>5, <3>1 DEF Holders, Thread
    <3>. QED
      BY <1>1, <1>3, <1>5, <2>1, <3>1, <3>2, TaskAssumption DEF MInv, SemaphoreState, Thread
  <2>2. CASE ns_lock = NULL
    BY <1>3, <2>2 DEF SemaphoreState
  <2>. QED
    BY <2>1, <2>2
<1>13. QueueState'
  <2>1. CASE mq # NULL
    <3>1. mbx'[t] = "idle"
      BY <1>5, <2>1, NotNull DEF MInv, MailboxTypeOK
    <3>. QED
      BY <1>1, <1>3, <1>5, <2>1, <3>1, TaskAssumption DEF MInv, QueueState, InQueue, Thread
  <2>2. CASE mq = NULL
    BY <1>3, <2>2 DEF QueueState
  <2>. QED
    BY <2>1, <2>2
<1>. QED
  BY <1>7, <1>8, <1>9, <1>10, <1>11, <1>12, <1>13 DEF MInv

\* The lock goes to the next waiter.
LEMMA LockReleaseMInv ==
    ASSUME MInv, NEW t \in Thread, lock_release(t)
    PROVE  MInv'
<1>1. mbx[t] = "unlock" /\ t \in Task
  BY DEF lock_release, MInv, MailboxTypeOK, MtLabel, Thread
<1>2. ns_lock # NULL /\ ns_lock \in Semaphore /\ mq = NULL
  BY <1>1, NotNull DEF MInv, MailboxTypeOK, QueueState
<1>3. ns_lock.waiters \in Seq(Task) /\ ns_lock.count \in Nat
  BY <1>2 DEF Semaphore
<1>4. t \in Holders /\ Holders \in SUBSET Task
  BY <1>1 DEF Holders
<1>5. /\ Cardinality(Holders \ {t}) = Cardinality(Holders) - 1
      /\ Cardinality(Holders) \in Nat /\ Cardinality(Holders \ {t}) \in Nat
  BY <1>4, OneLess, TasksCounted
<1>6. /\ ns_lock.count + Cardinality(Holders) = NUM_MAILBOX_QUEUE_SLOT
      /\ ns_lock.waiters # <<>> => ns_lock.count = 0
      /\ Distinct(ns_lock.waiters)
      /\ \A u \in Task : mbx[u] = "lock" <=> Among(u, ns_lock.waiters)
  BY <1>2 DEF MInv, SemaphoreState
<1>7. /\ mbx' = [u \in Thread |->
                    IF u = t THEN "idle"
                    ELSE IF ns_lock.waiters # <<>> /\ u = Head(ns_lock.waiters) THEN "slot"
                    ELSE mbx[u]]
      /\ UNCHANGED <<mq, req, flags, queue, irq, my_slot, nr_empty, nr_tx, nr_used_slots>>
  BY DEF lock_release, queueVars, statVars
<1>8. /\ mbx'[t] = "idle"
      /\ \A u \in Thread : u # t =>
            \/ mbx'[u] = mbx[u]
            \/ mbx'[u] = "slot" /\ mbx[u] = "lock" /\ u \in Task
      /\ mbx'[MailboxThread] = mbx[MailboxThread]
  <2>1. ns_lock.waiters # <<>> =>
           Head(ns_lock.waiters) \in Task /\ mbx[Head(ns_lock.waiters)] = "lock"
    BY <1>3, <1>6, TailQueue
  <2>. QED
    BY <1>1, <1>7, <2>1, TaskAssumption DEF Thread
<1>9. SemaphoreState' /\ ns_lock' \in Semaphore
  <2>1. CASE ns_lock.waiters # <<>>
    <3>. DEFINE h == Head(ns_lock.waiters)
    <3>1. /\ ns_lock' \in Semaphore
          /\ ns_lock'.count = ns_lock.count
          /\ ns_lock'.waiters = Tail(ns_lock.waiters)
      BY <1>2, <2>1, ReleaseResult DEF lock_release
    <3>2. /\ h \in Task /\ Among(h, ns_lock.waiters)
          /\ Distinct(ns_lock'.waiters)
          /\ \A u : Among(u, ns_lock'.waiters) <=> Among(u, ns_lock.waiters) /\ u # h
      BY <1>3, <1>6, <2>1, <3>1, TailQueue
    <3>3. mbx[h] = "lock" /\ h # t
      BY <1>1, <1>6, <3>2
    <3>4. mbx'[h] = "slot" /\ \A u \in Task : u # t /\ u # h => mbx'[u] = mbx[u]
      BY <1>7, <2>1, <3>2, <3>3 DEF Thread
    <3>. HIDE DEF h
    <3>5. h \notin Holders /\ Holders' = (Holders \ {t}) \cup {h}
      BY <1>1, <1>8, <3>2, <3>3, <3>4 DEF Holders
    <3>6. Cardinality(Holders') = Cardinality(Holders)
      BY <1>4, <1>5, <3>2, <3>5, OneMore
    <3>7. ns_lock'.count + Cardinality(Holders') = NUM_MAILBOX_QUEUE_SLOT
      BY <1>6, <3>1, <3>6
    <3>8. ASSUME NEW u \in Task PROVE mbx'[u] = "lock" <=> Among(u, ns_lock'.waiters)
      BY <1>1, <1>6, <1>8, <3>2, <3>4
    <3>9. \A u \in Task : mbx'[u] # "send" /\ (mbx'[u] = "wait" => my_slot[u] # NoSlot)
      BY <1>2, <1>8, <3>4 DEF MInv, SemaphoreState
    <3>10. mbx'[MailboxThread] = "receive" /\ req' = NoTask
      BY <1>2, <1>7, <1>8 DEF MInv, SemaphoreState
    <3>. QED
      BY <1>6, <1>7, <2>1, <3>1, <3>2, <3>7, <3>8, <3>9, <3>10 DEF SemaphoreState
  <2>2. CASE ns_lock.waiters = <<>>
    <3>1. ns_lock.count < NUM_MAILBOX_QUEUE_SLOT
      BY <1>3, <1>5, <1>6
    <3>2. /\ ns_lock' \in Semaphore
          /\ ns_lock'.count = ns_lock.count + 1
          /\ ns_lock'.waiters = <<>>
      BY <1>2, <2>2, <3>1, ReleaseResult DEF lock_release
    <3>3. \A u \in Task : u # t => mbx'[u] = mbx[u]
      BY <1>7, <2>2 DEF Thread
    <3>4. Holders' = Holders \ {t}
      BY <1>1, <1>8, <3>3 DEF Holders
    <3>5. ns_lock'.count + Cardinality(Holders') = NUM_MAILBOX_QUEUE_SLOT
      BY <1>3, <1>5, <1>6, <3>2, <3>4
    <3>6. ASSUME NEW u \in Task PROVE mbx'[u] # "lock"
      BY <1>6, <1>8, <2>2, <3>3, EmptyQueue
    <3>7. \A u \in Task : mbx'[u] # "send" /\ (mbx'[u] = "wait" => my_slot[u] # NoSlot)
      BY <1>2, <1>8, <3>3 DEF MInv, SemaphoreState
    <3>8. mbx'[MailboxThread] = "receive" /\ req' = NoTask
      BY <1>2, <1>7, <1>8 DEF MInv, SemaphoreState
    <3>. QED
      BY <1>7, <3>2, <3>5, <3>6, <3>7, <3>8, EmptyQueue DEF SemaphoreState
  <2>. QED
    BY <2>1, <2>2
<1>10. MailboxTypeOK'
  <2>1. mbx' \in [Thread -> TaskLabel \cup {"receive"}]
    BY <1>7 DEF MInv, MailboxTypeOK, TaskLabel
  <2>2. mbx'[MailboxThread] \in MtLabel /\ \A u \in Task : mbx'[u] # "receive"
    BY <1>8 DEF MInv, MailboxTypeOK, Thread
  <2>. QED
    BY <1>2, <1>7, <1>9, <2>1, <2>2 DEF MInv, MailboxTypeOK
<1>11. SlotByPlace'
  <2>. SUFFICES ASSUME NEW u \in Thread PROVE SlotByPlace!(u)'
    BY DEF SlotByPlace
  <2>1. CASE u = t
    BY <1>1, <1>7, <1>8, <2>1 DEF MInv, SlotByPlace
  <2>2. CASE u # t /\ mbx'[u] = mbx[u]
    BY <1>7, <2>2 DEF MInv, SlotByPlace
  <2>3. CASE u # t /\ mbx'[u] = "slot" /\ mbx[u] = "lock"
    BY <1>7, <2>3 DEF MInv, SlotByPlace
  <2>. QED
    BY <1>8, <2>1, <2>2, <2>3
<1>12. SlotOwned' /\ ReplyPending'
  BY <1>7 DEF MInv, SlotOwned, ReplyPending, MbxSlot
<1>13. FlagState'
  BY <1>1, <1>7, <1>8 DEF MInv, FlagState, Thread
<1>14. QueueState'
  BY <1>2, <1>7 DEF QueueState
<1>. QED
  BY <1>9, <1>10, <1>11, <1>12, <1>13, <1>14 DEF MInv

\* A stutter keeps the invariant.
LEMMA StutterMInv ==
    ASSUME MInv, UNCHANGED mbxVars
    PROVE  MInv'
<1>1. UNCHANGED <<ns_lock, mq, req, flags, queue, irq, my_slot, nr_empty, nr_tx, nr_used_slots, mbx>>
  BY DEF mbxVars, osVars, queueVars, statVars
<1>2. Holders' = Holders
  BY <1>1 DEF Holders
<1>3. MailboxTypeOK'
  BY <1>1 DEF MInv, MailboxTypeOK
<1>4. SlotByPlace' /\ SlotOwned' /\ FlagState' /\ ReplyPending'
  BY <1>1 DEF MInv, SlotByPlace, SlotOwned, FlagState, ReplyPending
<1>5. SemaphoreState'
  BY <1>1, <1>2 DEF MInv, SemaphoreState
<1>6. QueueState'
  BY <1>1 DEF MInv, QueueState, InQueue
<1>. QED
  BY <1>3, <1>4, <1>5, <1>6 DEF MInv

\* Every step of tasks, mailbox thread, handler and secure core keeps the
\* invariant.
LEMMA NextMInv == MInv /\ [Next]_mbxVars => MInv'
<1>. SUFFICES ASSUME MInv, [Next]_mbxVars PROVE MInv'
  OBVIOUS
<1>1. ASSUME NEW t \in Task, call_start(t) \/ send_again(t) PROVE MInv'
  BY <1>1, LockAcquireMInv, MqSendMInv DEF call_start, send_again
<1>2. ASSUME NEW t \in Thread, CallStep(t) PROVE MInv'
  BY <1>2, AcquireSlotMInv, StatsMInv, PostMInv, WaitReplyMInv, RxReplyMInv, LockReleaseMInv
  DEF CallStep
<1>3. ASSUME ThreadStep PROVE MInv'
  BY <1>2, <1>3, MqReceiveMInv DEF ThreadStep, Thread
<1>4. ASSUME reset_stats PROVE MInv'
  BY <1>4, ReinitMInv DEF reset_stats
<1>5. ASSUME PeerStep PROVE MInv'
  BY <1>5, SecureReplyMInv, WakeMInv DEF PeerStep
<1>6. ASSUME Quiescent \/ UNCHANGED mbxVars PROVE MInv'
  BY <1>6, StutterMInv DEF Quiescent
<1>. QED
  BY <1>1, <1>2, <1>3, <1>4, <1>5, <1>6 DEF Next, Thread

(***************************************************************************)
(* The inductive invariant holds in every behaviour of the mailbox.        *)
(***************************************************************************)
THEOREM MailboxInvariance == Spec => []MInv
BY InitMInv, NextMInv, PTL DEF Spec

-----------------------------------------------------------------------------
(* The properties of the mailbox. *)

\* Fewer tasks have a slot than there are slots while another one holds the
\* semaphore without a slot.
LEMMA SlotLeft ==
    ASSUME MInv, NEW t \in Task, mbx[t] = "slot"
    PROVE  EmptySlots # {}
<1>. DEFINE U == {u \in Task : my_slot[u] # NoSlot}
            f == [u \in U |-> my_slot[u]]
<1>. SUFFICES ASSUME EmptySlots = {} PROVE FALSE
  OBVIOUS
<1>1. mq = NULL /\ ns_lock \in Semaphore /\ ns_lock # NULL
  BY NotNull DEF MInv, MailboxTypeOK, QueueState
<1>2. my_slot[MailboxThread] = NoSlot /\ my_slot[t] = NoSlot
  BY <1>1 DEF MInv, SemaphoreState, SlotByPlace, Thread
<1>3. U \subseteq Holders \ {t}
  <2>. SUFFICES ASSUME NEW u \in U PROVE u \in Holders
    BY <1>2
  <2>1. mbx[u] \in TaskLabel /\ u \in Thread
    BY DEF MInv, MailboxTypeOK, Thread
  <2>2. mbx[u] \notin {"idle", "lock", "send"}
    BY <2>1 DEF MInv, SlotByPlace
  <2>. QED
    BY <2>1, <2>2 DEF Holders, TaskLabel
<1>4. f \in Surjection(U, MbxSlot)
  <2>1. f \in [U -> MbxSlot]
    BY DEF MInv, MailboxTypeOK, Thread
  <2>2. ASSUME NEW s \in MbxSlot PROVE \E u \in U : f[u] = s
    <3>1. queue[s].state # "empty"
      BY DEF EmptySlots
    <3>2. PICK u \in Thread : my_slot[u] = s
      BY <3>1 DEF MInv, SlotOwned
    <3>3. s # NoSlot
      BY SlotAssumption DEF MbxSlot, NoSlot
    <3>. QED
      BY <1>2, <3>2, <3>3 DEF Thread
  <2>. QED
    BY <2>1, <2>2 DEF Surjection
<1>5. IsFiniteSet(U) /\ Cardinality(U) \in Nat
  BY TasksCounted
<1>6. Cardinality(MbxSlot) = NUM_MAILBOX_QUEUE_SLOT
  BY SlotAssumption, FS_Interval DEF MbxSlot
<1>7. NUM_MAILBOX_QUEUE_SLOT <= Cardinality(U)
  <2>. HIDE DEF U, f
  <2>. QED
    BY <1>4, <1>5, <1>6, FS_Surjection
<1>8. t \in Holders /\ Holders \in SUBSET Task
  BY DEF Holders
<1>9. /\ Cardinality(Holders \ {t}) = Cardinality(Holders) - 1
      /\ IsFiniteSet(Holders \ {t}) /\ Cardinality(Holders) \in Nat
  BY <1>8, OneLess, TasksCounted
<1>10. Cardinality(U) <= Cardinality(Holders) - 1
  <2>. HIDE DEF U, f
  <2>. QED
    BY <1>3, <1>9, FS_Subset
<1>11. ns_lock.count \in Nat /\ ns_lock.count + Cardinality(Holders) = NUM_MAILBOX_QUEUE_SLOT
  BY <1>1 DEF MInv, SemaphoreState, Semaphore
<1>. HIDE DEF U, f
<1>. QED
  BY <1>5, <1>7, <1>9, <1>10, <1>11, SlotAssumption

(***************************************************************************)
(* A task that has the semaphore finds an empty slot: tokens and slots are *)
(* counted together, whatever the tasks, the secure core and the interrupt *)
(* do in between.                                                          *)
(***************************************************************************)
THEOREM SlotForLockHolderHolds == Spec => []SlotForLockHolder
<1>1. MInv => SlotForLockHolder
  BY SlotLeft DEF SlotForLockHolder
<1>. QED
  BY <1>1, MailboxInvariance, PTL

(***************************************************************************)
(* Threads in a call use different slots, and a task reads the reply to    *)
(* its own request, in both builds.                                        *)
(***************************************************************************)
THEOREM OwnSlotHolds == Spec => []OwnSlot
<1>1. MInv => OwnSlot
  BY DEF MInv, OwnSlot, SlotOwned, SlotByPlace, Using, Thread
<1>. QED
  BY <1>1, MailboxInvariance, PTL

(***************************************************************************)
(* No task sleeps through its reply: the flag, the pending interrupt or    *)
(* the message queue remembers it.                                         *)
(***************************************************************************)
THEOREM NoLostWakeupHolds == Spec => []NoLostWakeup
<1>1. MInv => NoLostWakeup
  <2>. SUFFICES ASSUME MInv, NEW t \in Task, mbx[t] = "wait" PROVE NoLostWakeup!(t)
    BY DEF NoLostWakeup
  <2>1. t \in Thread
    BY DEF Thread
  <2>2. CASE my_slot[t] = NoSlot
    <3>1. mq # NULL
      BY <2>2, NotNull DEF MInv, MailboxTypeOK, SemaphoreState
    <3>2. req = t \/ Among(t, mq.msgs)
      BY <2>2, <3>1 DEF MInv, QueueState, InQueue
    <3>. QED
      BY <2>2, <3>2 DEF Using, Among
  <2>3. CASE my_slot[t] # NoSlot
    <3>1. my_slot[t] \in MbxSlot
      BY <2>1, <2>3, UsedSlot
    <3>2. queue[my_slot[t]].state = "woken" => MAILBOX_THREAD_FLAG \subseteq flags[t]
      BY <2>3 DEF MInv, FlagState
    <3>3. queue[my_slot[t]].state = "replied" => irq
      BY <3>1 DEF MInv, ReplyPending
    <3>. QED
      BY <2>1, <2>3, <3>2, <3>3 DEF Using
  <2>. QED
    BY <2>2, <2>3
<1>. QED
  BY <1>1, MailboxInvariance, PTL

-----------------------------------------------------------------------------
(* The mailbox implements the abstract client call. *)

\* What AbstractCall gives at each place of a task.
CallAt(t) ==
    /\ mbx[t] \in {"idle", "send"} => AbstractCall(t) = "idle"
    /\ mbx[t] \in {"lock", "slot", "stats_read", "stats_add"} => AbstractCall(t) = "called"
    /\ mbx[t] = "post" => AbstractCall(t) = "sent"
    /\ mbx[t] = "wait" /\ my_slot[t] = NoSlot /\ req = t /\ mbx[MailboxThread] = "post" =>
          AbstractCall(t) = "sent"
    /\ mbx[t] = "wait" /\ my_slot[t] = NoSlot /\ ~(req = t /\ mbx[MailboxThread] = "post") =>
          AbstractCall(t) = "called"
    /\ mbx[t] = "wait" /\ my_slot[t] # NoSlot =>
          AbstractCall(t) = IF queue[my_slot[t]].state = "pend" THEN "sent" ELSE "served"
    /\ mbx[t] = "rx" /\ my_slot[t] # NoSlot /\ queue[my_slot[t]].state = "woken" =>
          AbstractCall(t) = "served"
    /\ mbx[t] = "unlock" => AbstractCall(t) = "served"

\* The places of a task that count as places of its abstract call.
LEMMA CallPlaces ==
    ASSUME NEW t \in Task
    PROVE  CallAt(t) /\ CallAt(t)'
<1>. t \in Thread
  BY DEF Thread
<1>1. CallAt(t)
  BY DEF CallAt, AbstractCall, InQueue, Using
<1>2. CallAt(t)'
  BY DEF CallAt, AbstractCall, InQueue, Using
<1>. QED
  BY <1>1, <1>2

\* A task that stays where it is and whose slot does not pass from posted to
\* replied is in the same abstract state.
LEMMA SameCall ==
    ASSUME MInv, NEW u \in Task,
           mbx'[u] = mbx[u], my_slot'[u] = my_slot[u],
           my_slot[u] # NoSlot => /\ queue'[my_slot[u]].state = "pend"
                                        <=> queue[my_slot[u]].state = "pend"
                                  /\ queue[my_slot[u]].state = "woken"
                                        => queue'[my_slot[u]].state = "woken",
           mbx[u] = "wait" /\ my_slot[u] = NoSlot =>
              ((req' = u /\ mbx'[MailboxThread] = "post") <=> (req = u /\ mbx[MailboxThread] = "post"))
    PROVE  AbstractCall(u)' = AbstractCall(u)
<1>. u \in Thread
  BY DEF Thread
<1>1. CallAt(u) /\ CallAt(u)'
  BY CallPlaces
<1>2. mbx[u] \in TaskLabel
  BY DEF MInv, MailboxTypeOK
<1>3. CASE mbx[u] = "wait" /\ my_slot[u] # NoSlot
  BY <1>1, <1>3 DEF CallAt
<1>4. CASE mbx[u] = "wait" /\ my_slot[u] = NoSlot
  BY <1>1, <1>4 DEF CallAt
<1>5. CASE mbx[u] = "rx"
  <2>1. my_slot[u] # NoSlot /\ queue[my_slot[u]] = [state |-> "woken", owner |-> u]
    BY <1>5 DEF MInv, SlotByPlace
  <2>2. queue[my_slot[u]].state = "woken"
    BY <2>1
  <2>. QED
    BY <1>1, <1>5, <2>1, <2>2 DEF CallAt
<1>6. CASE mbx[u] \notin {"wait", "rx"}
  BY <1>1, <1>2, <1>6 DEF CallAt, TaskLabel
<1>. QED
  BY <1>3, <1>4, <1>5, <1>6

\* One call moves on, the others stay.
LEMMA OneMoves ==
    ASSUME NEW t \in Task, NEW to, AbstractCall(t)' = to,
           \A u \in Task : u # t => AbstractCall(u)' = AbstractCall(u)
    PROVE  [u \in Task |-> AbstractCall(u)]' = [[u \in Task |-> AbstractCall(u)] EXCEPT ![t] = to]
OBVIOUS

\* None moves.
LEMMA NoneMoves ==
    ASSUME \A u \in Task : AbstractCall(u)' = AbstractCall(u), nr_tx' = nr_tx
    PROVE  UNCHANGED CC!callVars
BY DEF CC!callVars

\* A task alone goes from idle to called: a call begins.
LEMMA BeginsCall ==
    ASSUME NEW t \in Task, AbstractCall(t) = "idle", AbstractCall(t)' = "called", nr_tx' = nr_tx,
           \A u \in Task : u # t => AbstractCall(u)' = AbstractCall(u)
    PROVE  CC!Begin(t)
BY OneMoves DEF CC!Begin

\* A task alone goes from sent to served: a call is served.
LEMMA ServesCall ==
    ASSUME NEW t \in Task, AbstractCall(t) = "sent", AbstractCall(t)' = "served", nr_tx' = nr_tx,
           \A u \in Task : u # t => AbstractCall(u)' = AbstractCall(u)
    PROVE  CC!Serve(t)
BY OneMoves DEF CC!Serve

\* A task alone goes from served to idle: a call returns.
LEMMA ReturnsCall ==
    ASSUME NEW t \in Task, AbstractCall(t) = "served", AbstractCall(t)' = "idle", nr_tx' = nr_tx,
           \A u \in Task : u # t => AbstractCall(u)' = AbstractCall(u)
    PROVE  CC!Return(t)
BY OneMoves DEF CC!Return

\* A task alone goes from called to sent, with a slot to spare: a call is
\* transmitted.
LEMMA TransmitsCall ==
    ASSUME NEW t \in Task, AbstractCall(t) = "called", AbstractCall(t)' = "sent", nr_tx' = nr_tx + 1,
           Cardinality({u \in Task : AbstractCall(u) \in {"sent", "served"}}) < NUM_MAILBOX_QUEUE_SLOT,
           \A u \in Task : u # t => AbstractCall(u)' = AbstractCall(u)
    PROVE  CC!Transmit(t)
<1>1. CC!Outstanding = {u \in Task : AbstractCall(u) \in {"sent", "served"}}
  BY DEF CC!Outstanding
<1>2. CC!Cardinality(CC!Outstanding) < NUM_MAILBOX_QUEUE_SLOT
  <2>1. CC!Cardinality(CC!Outstanding) = Cardinality(CC!Outstanding)
    BY DEF CC!Cardinality, Cardinality
  <2>. QED
    BY <1>1, <2>1
<1>3. [u \in Task |-> AbstractCall(u)]' = [[u \in Task |-> AbstractCall(u)] EXCEPT ![t] = "sent"]
  BY OneMoves
<1>. QED
  BY <1>2, <1>3 DEF CC!Transmit

\* A call begins when the semaphore or the message queue takes it.
LEMMA StartSimulates ==
    ASSUME MInv, NEW t \in Task, lock_acquire(t) \/ mq_send(t)
    PROVE  CC!Begin(t) \/ UNCHANGED CC!callVars
<1>. t \in Thread
  BY DEF Thread
<1>1. /\ \E l \in {"lock", "slot", "wait", "send"} : mbx' = [mbx EXCEPT ![t] = l]
      /\ UNCHANGED <<req, queue, my_slot, nr_tx>>
      /\ mbx[t] \in {"idle", "send"}
  BY DEF lock_acquire, mq_send, Goto, queueVars, statVars
<1>2. /\ mbx'[t] \in {"lock", "slot", "wait", "send"}
      /\ \A u \in Thread : u # t => mbx'[u] = mbx[u]
      /\ mbx'[MailboxThread] = mbx[MailboxThread]
  BY <1>1, TaskAssumption DEF MInv, MailboxTypeOK, Thread
<1>3. \A u \in Task : u # t => AbstractCall(u)' = AbstractCall(u)
  BY <1>1, <1>2, SameCall DEF Thread
<1>4. AbstractCall(t) = "idle"
  BY <1>1, CallPlaces DEF CallAt
<1>5. my_slot[t] = NoSlot
  BY <1>1 DEF MInv, SlotByPlace
<1>6. mbx'[t] = "wait" => req # t
  <2>1. CASE mq # NULL
    BY <1>1, <2>1 DEF MInv, QueueState, InQueue
  <2>2. CASE mq = NULL
    BY <2>2, NotNull, TaskAssumption DEF MInv, MailboxTypeOK, SemaphoreState
  <2>. QED
    BY <2>1, <2>2
<1>7. CASE mbx'[t] = "send"
  <2>1. AbstractCall(t)' = "idle"
    BY <1>7, CallPlaces DEF CallAt
  <2>. QED
    BY <1>1, <1>3, <1>4, <2>1, NoneMoves
<1>8. CASE mbx'[t] # "send"
  <2>1. AbstractCall(t)' = "called"
    BY <1>1, <1>2, <1>5, <1>6, <1>8, CallPlaces DEF CallAt
  <2>. QED
    BY <1>1, <1>3, <1>4, <2>1, BeginsCall
<1>. QED
  BY <1>7, <1>8

\* Taking a request from the queue, taking a slot and reading the statistics
\* are not visible.
LEMMA ReceiveSimulates ==
    ASSUME MInv, mq_receive
    PROVE  UNCHANGED CC!callVars
<1>1. /\ mbx[MailboxThread] = "receive"
      /\ mbx' = [mbx EXCEPT ![MailboxThread] = "slot"]
      /\ UNCHANGED <<queue, my_slot, nr_tx>>
  BY DEF mq_receive, Goto, queueVars, statVars
<1>2. mbx'[MailboxThread] = "slot" /\ \A u \in Task : mbx'[u] = mbx[u]
  BY <1>1, TaskAssumption DEF MInv, MailboxTypeOK, Thread
<1>3. \A u \in Task : AbstractCall(u)' = AbstractCall(u)
  BY <1>1, <1>2, SameCall
<1>. QED
  BY <1>1, <1>3, NoneMoves

\* Getting a slot is not yet a transmission.
LEMMA AcquireSlotSimulates ==
    ASSUME MInv, NEW t \in Thread, acquire_empty_slot(t)
    PROVE  UNCHANGED CC!callVars
<1>1. PICK s \in MbxSlot : /\ queue[s].state = "empty"
                           /\ queue' = [queue EXCEPT ![s].state = "held"]
                           /\ my_slot' = [my_slot EXCEPT ![t] = s]
  BY DEF acquire_empty_slot, EmptySlots
<1>2. /\ mbx[t] = "slot"
      /\ mbx' = [mbx EXCEPT ![t] = "stats_read"]
      /\ UNCHANGED <<req, nr_tx>>
  BY DEF acquire_empty_slot, Goto, osVars, statVars
<1>3. /\ mbx'[t] = "stats_read"
      /\ \A u \in Thread : u # t => mbx'[u] = mbx[u] /\ my_slot'[u] = my_slot[u]
  BY <1>1, <1>2 DEF MInv, MailboxTypeOK
<1>4. ASSUME NEW u \in Task PROVE AbstractCall(u)' = AbstractCall(u)
  <2>. u \in Thread /\ MailboxThread \in Thread
    BY DEF Thread
  <2>1. CASE u = t
    BY <1>2, <1>3, <2>1, CallPlaces DEF CallAt
  <2>2. CASE u # t
    <3>1. my_slot[u] # NoSlot => queue'[my_slot[u]] = queue[my_slot[u]]
      BY <1>1, UsedSlot DEF MInv, MailboxTypeOK
    <3>2. mbx'[MailboxThread] = "post" <=> mbx[MailboxThread] = "post"
      BY <1>2, <1>3
    <3>. QED
      BY <1>2, <1>3, <2>2, <3>1, <3>2, SameCall
  <2>. QED
    BY <2>1, <2>2
<1>. QED
  BY <1>2, <1>4, NoneMoves

\* Reading the counter changes nothing a caller sees.
LEMMA StatsReadSimulates ==
    ASSUME MInv, NEW t \in Thread, stats_update_read(t)
    PROVE  UNCHANGED CC!callVars
<1>1. /\ mbx[t] = "stats_read"
      /\ mbx' = [mbx EXCEPT ![t] = "stats_add"]
      /\ UNCHANGED <<req, queue, my_slot, nr_tx>>
  BY DEF stats_update_read, Goto, osVars, queueVars
<1>2. mbx'[t] = "stats_add" /\ \A u \in Thread : u # t => mbx'[u] = mbx[u]
  BY <1>1 DEF MInv, MailboxTypeOK
<1>3. ASSUME NEW u \in Task PROVE AbstractCall(u)' = AbstractCall(u)
  <2>. u \in Thread /\ MailboxThread \in Thread
    BY DEF Thread
  <2>1. CASE u = t
    BY <1>1, <1>2, <2>1, CallPlaces DEF CallAt
  <2>2. CASE u # t
    <3>1. mbx'[MailboxThread] = "post" <=> mbx[MailboxThread] = "post"
      BY <1>1, <1>2
    <3>. QED
      BY <1>1, <1>2, <2>2, <3>1, SameCall
  <2>. QED
    BY <2>1, <2>2
<1>. QED
  BY <1>1, <1>3, NoneMoves

\* A call that is about to be counted is one more than those outstanding: with
\* the semaphore it holds one of the tokens, with the mailbox thread a slot.
LEMMA RoomToTransmit ==
    ASSUME MInv, NEW t \in Thread, mbx[t] = "stats_add"
    PROVE  Cardinality({u \in Task : AbstractCall(u) \in {"sent", "served"}}) < NUM_MAILBOX_QUEUE_SLOT
<1>. DEFINE O == {u \in Task : AbstractCall(u) \in {"sent", "served"}}
<1>1. \A u \in Task : CallAt(u) /\ mbx[u] \in TaskLabel /\ u \in Thread
  BY CallPlaces DEF MInv, MailboxTypeOK, Thread
<1>2. O \in SUBSET Task /\ IsFiniteSet(O) /\ Cardinality(O) \in Nat
  BY TasksCounted
<1>3. CASE ns_lock # NULL
  <2>1. t \in Task /\ t \in Holders /\ Holders \in SUBSET Task
    BY <1>3 DEF MInv, SemaphoreState, Thread, Holders
  <2>2. ASSUME NEW u \in O PROVE u \in Holders \ {t}
    <3>1. u \in Task /\ u # t
      BY <1>1 DEF CallAt
    <3>2. mbx[u] \notin {"idle", "send", "lock"}
      BY <1>1, <3>1 DEF CallAt
    <3>. QED
      BY <1>1, <3>1, <3>2 DEF Holders, TaskLabel
  <2>3. /\ Cardinality(Holders \ {t}) = Cardinality(Holders) - 1
        /\ IsFiniteSet(Holders \ {t}) /\ Cardinality(Holders) \in Nat
    BY <2>1, OneLess, TasksCounted
  <2>. HIDE DEF O
  <2>4. Cardinality(O) <= Cardinality(Holders) - 1
    BY <2>2, <2>3, FS_Subset
  <2>5. ns_lock.count \in Nat /\ ns_lock.count + Cardinality(Holders) = NUM_MAILBOX_QUEUE_SLOT
    BY <1>3 DEF MInv, MailboxTypeOK, SemaphoreState, Semaphore
  <2>6. Cardinality(O) < NUM_MAILBOX_QUEUE_SLOT
    BY <1>2, <2>3, <2>4, <2>5, SlotAssumption
  <2>. QED
    BY <2>6 DEF O
<1>4. CASE ns_lock = NULL
  <2>. DEFINE S == {my_slot[u] : u \in O}
              f == [s \in S |-> queue[s].owner]
  <2>1. mq # NULL
    BY <1>4, NotNull DEF MInv, MailboxTypeOK
  <2>2. t = MailboxThread
    BY <2>1 DEF MInv, QueueState, Thread
  <2>3. ASSUME NEW u \in O
        PROVE  my_slot[u] # NoSlot /\ queue[my_slot[u]].owner = u /\ u # t
    <3>1. u \in Task /\ u # t /\ u \in Thread
      BY <2>2, TaskAssumption, <1>1
    <3>2. mbx[u] \in {"wait", "rx"}
      BY <1>1, <2>1, <3>1 DEF MInv, QueueState, CallAt
    <3>3. my_slot[u] # NoSlot
      BY <1>1, <2>2, <3>1, <3>2 DEF CallAt, MInv, SlotByPlace
    <3>4. CASE mbx[u] = "wait"
      BY <3>1, <3>3, <3>4 DEF MInv, SlotByPlace
    <3>5. CASE mbx[u] = "rx"
      <4>1. queue[my_slot[u]] = [state |-> "woken", owner |-> u]
        BY <3>1, <3>5 DEF MInv, SlotByPlace
      <4>. QED
        BY <3>1, <3>3, <4>1
    <3>. QED
      BY <3>2, <3>4, <3>5
  <2>4. my_slot[t] \in MbxSlot /\ my_slot[t] # NoSlot
    <3>1. my_slot[t] # NoSlot
      BY DEF MInv, SlotByPlace
    <3>. QED
      BY <3>1, UsedSlot
  <2>5. S \subseteq MbxSlot \ {my_slot[t]}
    BY <1>1, <2>3, UsedSlot DEF MInv, SlotOwned
  <2>6. f \in Surjection(S, O)
    BY <2>3 DEF Surjection
  <2>7. /\ IsFiniteSet(MbxSlot) /\ Cardinality(MbxSlot) = NUM_MAILBOX_QUEUE_SLOT
    BY SlotAssumption, FS_Interval DEF MbxSlot
  <2>8. /\ IsFiniteSet(MbxSlot \ {my_slot[t]})
        /\ Cardinality(MbxSlot \ {my_slot[t]}) = NUM_MAILBOX_QUEUE_SLOT - 1
    BY <2>4, <2>7, FS_RemoveElement
  <2>. HIDE DEF O, S, f
  <2>9. IsFiniteSet(S) /\ Cardinality(S) <= NUM_MAILBOX_QUEUE_SLOT - 1 /\ Cardinality(S) \in Nat
    BY <2>5, <2>8, FS_Subset, FS_CardinalityType
  <2>10. Cardinality(O) <= Cardinality(S)
    BY <2>6, <2>9, FS_Surjection
  <2>11. Cardinality(O) < NUM_MAILBOX_QUEUE_SLOT
    BY <1>2, <2>9, <2>10, SlotAssumption
  <2>. QED
    BY <2>11 DEF O
<1>. QED
  BY <1>3, <1>4

\* A call is transmitted when the statistics count it.
LEMMA StatsAddSimulates ==
    ASSUME MInv, NEW t \in Thread, stats_update_add(t)
    PROVE  \E u \in Task : CC!Transmit(u)
<1>1. /\ mbx[t] = "stats_add"
      /\ mbx' = [mbx EXCEPT ![t] = "post"]
      /\ nr_tx' = nr_tx + 1
      /\ UNCHANGED <<req, queue, my_slot>>
  BY DEF stats_update_add, Goto, osVars, queueVars
<1>2. mbx'[t] = "post" /\ \A u \in Thread : u # t => mbx'[u] = mbx[u]
  BY <1>1 DEF MInv, MailboxTypeOK
<1>3. Cardinality({u \in Task : AbstractCall(u) \in {"sent", "served"}}) < NUM_MAILBOX_QUEUE_SLOT
  BY <1>1, RoomToTransmit
<1>4. CASE t = MailboxThread
  <2>1. mq # NULL
    BY <1>1, <1>4, NotNull DEF MInv, MailboxTypeOK, SemaphoreState
  <2>2. req \in Task
    BY <1>1, <1>4, <2>1 DEF MInv, MailboxTypeOK, QueueState
  <2>3. mbx[req] = "wait" /\ my_slot[req] = NoSlot /\ req # t /\ mbx'[req] = "wait"
    BY <1>2, <1>4, <2>1, <2>2, TaskAssumption DEF MInv, QueueState, InQueue, Thread
  <2>4. PICK h \in Task : h = req
    BY <2>2
  <2>5. AbstractCall(h) = "called" /\ AbstractCall(h)' = "sent"
    BY <1>1, <1>2, <1>4, <2>3, <2>4, CallPlaces DEF CallAt
  <2>6. \A u \in Task : u # h => AbstractCall(u)' = AbstractCall(u)
    BY <1>1, <1>2, <1>4, <2>4, SameCall, TaskAssumption DEF Thread
  <2>. QED
    BY <1>1, <1>3, <2>5, <2>6, TransmitsCall
<1>5. CASE t # MailboxThread
  <2>1. t \in Task
    BY <1>5 DEF Thread
  <2>2. AbstractCall(t) = "called" /\ AbstractCall(t)' = "sent"
    BY <1>1, <1>2, <2>1, CallPlaces DEF CallAt
  <2>3. mbx'[MailboxThread] = mbx[MailboxThread]
    BY <1>2, <1>5 DEF Thread
  <2>4. \A u \in Task : u # t => AbstractCall(u)' = AbstractCall(u)
    BY <1>1, <1>2, <2>3, SameCall DEF Thread
  <2>. QED
    BY <1>1, <1>3, <2>1, <2>2, <2>4, TransmitsCall
<1>. QED
  BY <1>4, <1>5

\* The secure core serves the call whose slot it answers.
LEMMA SecureReplySimulates ==
    ASSUME MInv, NEW s \in MbxSlot, secure_reply(s)
    PROVE  \E u \in Task : CC!Serve(u)
<1>1. /\ queue[s].state = "pend"
      /\ queue' = [queue EXCEPT ![s].state = "replied"]
      /\ UNCHANGED <<req, my_slot, nr_tx, mbx>>
  BY DEF secure_reply, osVars, statVars
<1>2. /\ queue'[s].state = "replied"
      /\ \A q \in MbxSlot : q # s => queue'[q] = queue[q]
  BY <1>1 DEF MInv, MailboxTypeOK
<1>3. s # NoSlot
  BY SlotAssumption DEF MbxSlot, NoSlot
<1>4. PICK t \in Thread : my_slot[t] = s
  BY <1>1 DEF MInv, SlotOwned
<1>5. mbx[t] = "wait" /\ t \in Task
  <2>1. mbx[t] = "wait"
    BY <1>1, <1>3, <1>4, PostedSlot
  <2>. QED
    BY <2>1 DEF MInv, MailboxTypeOK, MtLabel, Thread
<1>6. AbstractCall(t) = "sent" /\ AbstractCall(t)' = "served"
  BY <1>1, <1>2, <1>3, <1>4, <1>5, CallPlaces DEF CallAt
<1>7. ASSUME NEW u \in Task, u # t PROVE AbstractCall(u)' = AbstractCall(u)
  <2>1. u \in Thread
    BY DEF Thread
  <2>2. my_slot[u] # NoSlot => queue'[my_slot[u]] = queue[my_slot[u]]
    BY <1>2, <1>4, <1>7, <2>1, UsedSlot DEF MInv, SlotOwned
  <2>. QED
    BY <1>1, <2>2, SameCall
<1>. QED
  BY <1>1, <1>5, <1>6, <1>7, ServesCall

\* Waking up changes nothing a caller sees.
LEMMA WakeSimulates ==
    ASSUME MInv, wake_task_isr
    PROVE  UNCHANGED CC!callVars
<1>1. /\ queue' = [s \in MbxSlot |-> IF queue[s].state = "replied"
                                     THEN [queue[s] EXCEPT !.state = "woken"] ELSE queue[s]]
      /\ UNCHANGED <<req, my_slot, nr_tx, mbx>>
  BY DEF wake_task_isr, statVars
<1>2. \A s \in MbxSlot : /\ queue[s].state = "replied" => queue'[s].state = "woken"
                         /\ queue[s].state # "replied" => queue'[s] = queue[s]
  BY <1>1 DEF MInv, MailboxTypeOK
<1>3. ASSUME NEW u \in Task PROVE AbstractCall(u)' = AbstractCall(u)
  <2>1. u \in Thread
    BY DEF Thread
  <2>2. my_slot[u] # NoSlot => my_slot[u] \in MbxSlot
    BY <2>1, UsedSlot
  <2>. QED
    BY <1>1, <1>2, <2>2, SameCall
<1>. QED
  BY <1>1, <1>3, NoneMoves

\* Waiting changes nothing a caller sees.
LEMMA WaitReplySimulates ==
    ASSUME MInv, NEW t \in Thread, wait_reply(t)
    PROVE  UNCHANGED CC!callVars
<1>1. mbx[t] = "wait" /\ t \in Task
  BY DEF wait_reply, MInv, MailboxTypeOK, MtLabel, Thread
<1>2. /\ mbx' = [mbx EXCEPT ![t] = "rx"]
      /\ UNCHANGED <<req, queue, my_slot, nr_tx>>
  BY DEF wait_reply, Goto, queueVars, statVars
<1>3. /\ mbx'[t] = "rx" /\ mbx'[MailboxThread] = mbx[MailboxThread]
      /\ \A u \in Thread : u # t => mbx'[u] = mbx[u]
  BY <1>1, <1>2, TaskAssumption DEF MInv, MailboxTypeOK, Thread
<1>4. my_slot[t] # NoSlot /\ queue[my_slot[t]].state = "woken"
  <2>1. MInv'
    BY WaitReplyMInv
  <2>2. my_slot'[t] # NoSlot /\ queue'[my_slot'[t]] = [state |-> "woken", owner |-> t]
    BY <1>3, <2>1 DEF MInv, SlotByPlace
  <2>. QED
    BY <1>2, <2>2
<1>5. AbstractCall(t) = "served" /\ AbstractCall(t)' = "served"
  BY <1>1, <1>2, <1>3, <1>4, CallPlaces DEF CallAt
<1>6. \A u \in Task : u # t => AbstractCall(u)' = AbstractCall(u)
  BY <1>2, <1>3, SameCall DEF Thread
<1>. QED
  BY <1>2, <1>5, <1>6, NoneMoves

\* Taking the answer returns the call, or leaves that to the release of the
\* lock.
LEMMA RxReplySimulates ==
    ASSUME MInv, NEW t \in Thread, rx_reply(t)
    PROVE  (\E u \in Task : CC!Return(u)) \/ UNCHANGED CC!callVars
<1>. DEFINE s == my_slot[t]
<1>1. mbx[t] = "rx" /\ t \in Task
  BY DEF rx_reply, MInv, MailboxTypeOK, MtLabel, Thread
<1>2. s # NoSlot /\ queue[s].state = "woken"
  <2>1. s # NoSlot /\ queue[s] = [state |-> "woken", owner |-> t]
    BY <1>1 DEF MInv, SlotByPlace
  <2>. QED
    BY <2>1
<1>3. /\ queue' = [queue EXCEPT ![s] = [state |-> "empty", owner |-> NoTask]]
      /\ my_slot' = [my_slot EXCEPT ![t] = NoSlot]
      /\ mbx' = [mbx EXCEPT ![t] = IF ns_lock = NULL THEN "idle" ELSE "unlock"]
      /\ UNCHANGED <<req, nr_tx>>
  BY DEF rx_reply, Goto, osVars, statVars
<1>4. /\ mbx'[t] \in {"idle", "unlock"} /\ mbx'[MailboxThread] = mbx[MailboxThread]
      /\ \A u \in Thread : u # t => mbx'[u] = mbx[u] /\ my_slot'[u] = my_slot[u]
  BY <1>1, <1>3, TaskAssumption DEF MInv, MailboxTypeOK, Thread
<1>5. AbstractCall(t) = "served"
  BY <1>1, <1>2, CallPlaces DEF CallAt
<1>6. ASSUME NEW u \in Task, u # t PROVE AbstractCall(u)' = AbstractCall(u)
  <2>1. u \in Thread
    BY DEF Thread
  <2>2. my_slot[u] # NoSlot => my_slot[u] # s /\ my_slot[u] \in MbxSlot
    BY <1>6, <2>1, UsedSlot DEF MInv, SlotOwned
  <2>3. my_slot[u] # NoSlot => queue'[my_slot[u]] = queue[my_slot[u]]
    BY <1>3, <2>2 DEF MInv, MailboxTypeOK
  <2>. QED
    BY <1>3, <1>4, <1>6, <2>1, <2>3, SameCall
<1>7. CASE mbx'[t] = "idle"
  <2>1. AbstractCall(t)' = "idle"
    BY <1>1, <1>7, CallPlaces DEF CallAt
  <2>. QED
    BY <1>1, <1>3, <1>5, <1>6, <2>1, ReturnsCall
<1>8. CASE mbx'[t] = "unlock"
  <2>1. AbstractCall(t)' = "served"
    BY <1>1, <1>8, CallPlaces DEF CallAt
  <2>. QED
    BY <1>3, <1>5, <1>6, <2>1, NoneMoves
<1>. QED
  BY <1>4, <1>7, <1>8

\* With the semaphore a call returns when it gives its token back; a task that
\* the token is handed to has only been called.
LEMMA LockReleaseSimulates ==
    ASSUME MInv, NEW t \in Thread, lock_release(t)
    PROVE  \E u \in Task : CC!Return(u)
<1>1. mbx[t] = "unlock" /\ t \in Task
  BY DEF lock_release, MInv, MailboxTypeOK, MtLabel, Thread
<1>2. ns_lock # NULL /\ ns_lock \in Semaphore
  BY <1>1, NotNull DEF MInv, MailboxTypeOK, QueueState
<1>3. ns_lock.waiters # <<>> =>
         Head(ns_lock.waiters) \in Task /\ mbx[Head(ns_lock.waiters)] = "lock"
  BY <1>2, TailQueue DEF MInv, SemaphoreState, Semaphore
<1>4. /\ mbx' = [u \in Thread |->
                    IF u = t THEN "idle"
                    ELSE IF ns_lock.waiters # <<>> /\ u = Head(ns_lock.waiters) THEN "slot"
                    ELSE mbx[u]]
      /\ UNCHANGED <<req, queue, my_slot, nr_tx>>
  BY DEF lock_release, queueVars, statVars
<1>5. /\ mbx'[t] = "idle"
      /\ \A u \in Thread : u # t => mbx'[u] = mbx[u] \/ (mbx'[u] = "slot" /\ mbx[u] = "lock")
      /\ mbx'[MailboxThread] = mbx[MailboxThread]
  BY <1>1, <1>3, <1>4, TaskAssumption DEF Thread
<1>6. AbstractCall(t) = "served" /\ AbstractCall(t)' = "idle"
  BY <1>1, <1>5, CallPlaces DEF CallAt
<1>7. ASSUME NEW u \in Task, u # t PROVE AbstractCall(u)' = AbstractCall(u)
  <2>1. CASE mbx'[u] = mbx[u]
    BY <1>4, <1>5, <2>1, SameCall
  <2>2. CASE mbx'[u] = "slot" /\ mbx[u] = "lock"
    BY <2>2, CallPlaces DEF CallAt
  <2>. QED
    BY <1>5, <1>7, <2>1, <2>2 DEF Thread
<1>. QED
  BY <1>1, <1>4, <1>6, <1>7, ReturnsCall

\* The notification changes nothing a caller sees.
LEMMA PostSimulates ==
    ASSUME MInv, NEW t \in Thread, post(t)
    PROVE  UNCHANGED CC!callVars
<1>1. /\ mbx[t] = "post"
      /\ queue' = [queue EXCEPT ![my_slot[t]] = [state |-> "pend", owner |-> TaskHandle(t)]]
      /\ my_slot' = [my_slot EXCEPT ![t] = NoSlot, ![TaskHandle(t)] = my_slot[t]]
      /\ mbx' = [mbx EXCEPT ![t] = IF t = MailboxThread THEN "receive" ELSE "wait"]
      /\ UNCHANGED <<ns_lock, mq, nr_tx>>
  BY DEF post, Goto, statVars
<1>2. my_slot[t] # NoSlot /\ my_slot[t] \in MbxSlot
  <2>1. my_slot[t] # NoSlot
    BY <1>1 DEF MInv, SlotByPlace
  <2>. QED
    BY <2>1, UsedSlot
<1>3. /\ queue'[my_slot[t]].state = "pend"
      /\ \A q \in MbxSlot : q # my_slot[t] => queue'[q] = queue[q]
  BY <1>1, <1>2 DEF MInv, MailboxTypeOK
<1>4. PICK h \in Task :
         /\ h = TaskHandle(t)
         /\ AbstractCall(h) = "sent"
         /\ mbx'[h] = "wait" /\ my_slot'[h] = my_slot[t]
         /\ \A u \in Task : u # h => mbx'[u] = mbx[u] /\ my_slot'[u] = my_slot[u]
         /\ \A u \in Task : u # h /\ mbx[u] = "wait" /\ my_slot[u] = NoSlot =>
               mbx'[MailboxThread] # "post" /\ req # u
  <2>1. CASE t = MailboxThread
    <3>1. mq # NULL
      BY <1>1, <2>1, NotNull DEF MInv, MailboxTypeOK, SemaphoreState
    <3>2. req \in Task /\ req # t
      BY <1>1, <2>1, <3>1, TaskAssumption DEF MInv, MailboxTypeOK, QueueState
    <3>3. mbx[req] = "wait" /\ my_slot[req] = NoSlot
      BY <3>1, <3>2 DEF MInv, QueueState, InQueue
    <3>4. AbstractCall(req) = "sent"
      BY <1>1, <2>1, <3>2, <3>3, CallPlaces DEF CallAt
    <3>5. mbx'[t] = "receive" /\ mbx'[req] = "wait" /\ my_slot'[req] = my_slot[t]
      BY <1>1, <2>1, <3>2, <3>3 DEF TaskHandle, MInv, MailboxTypeOK, Thread
    <3>6. \A u \in Task : u # req => mbx'[u] = mbx[u] /\ my_slot'[u] = my_slot[u]
      BY <1>1, <2>1, TaskAssumption DEF TaskHandle, MInv, MailboxTypeOK, Thread
    <3>. QED
      BY <2>1, <3>2, <3>4, <3>5, <3>6 DEF TaskHandle
  <2>2. CASE t # MailboxThread
    <3>1. t \in Task
      BY <2>2 DEF Thread
    <3>2. mq = NULL /\ ns_lock # NULL
      BY <1>1, <3>1, NotNull DEF MInv, MailboxTypeOK, QueueState
    <3>3. AbstractCall(t) = "sent"
      BY <1>1, <3>1, CallPlaces DEF CallAt
    <3>4. mbx'[t] = "wait" /\ my_slot'[t] = my_slot[t]
      BY <1>1, <2>2 DEF TaskHandle, MInv, MailboxTypeOK
    <3>5. \A u \in Task : u # t => mbx'[u] = mbx[u] /\ my_slot'[u] = my_slot[u]
      BY <1>1, <2>2 DEF TaskHandle, MInv, MailboxTypeOK, Thread
    <3>6. \A u \in Task : mbx[u] = "wait" => my_slot[u] # NoSlot
      BY <3>2 DEF MInv, SemaphoreState
    <3>. QED
      BY <2>2, <3>1, <3>3, <3>4, <3>5, <3>6 DEF TaskHandle
  <2>. QED
    BY <2>1, <2>2
<1>5. AbstractCall(h)' = "sent"
  BY <1>2, <1>3, <1>4, CallPlaces DEF CallAt
<1>6. ASSUME NEW u \in Task, u # h PROVE AbstractCall(u)' = AbstractCall(u)
  <2>1. u \in Thread
    BY DEF Thread
  <2>2. CASE my_slot[u] = my_slot[t]
    <3>1. u = t
      BY <1>2, <2>1, <2>2 DEF MInv, SlotOwned
    <3>2. t # MailboxThread
      BY <3>1, TaskAssumption
    <3>. QED
      BY <1>4, <1>6, <3>1, <3>2 DEF TaskHandle
  <2>3. CASE my_slot[u] # my_slot[t]
    <3>1. my_slot[u] # NoSlot => queue'[my_slot[u]] = queue[my_slot[u]]
      BY <1>3, <2>1, <2>3, UsedSlot
    <3>. QED
      BY <1>4, <1>6, <3>1, SameCall
  <2>. QED
    BY <2>2, <2>3
<1>. QED
  BY <1>1, <1>4, <1>5, <1>6, NoneMoves

\* Setting the statistics back is ResetStats.
LEMMA ReinitSimulates ==
    ASSUME MInv, stats_reinit
    PROVE  CC!ResetStats
<1>1. nr_tx' = 0 /\ UNCHANGED <<req, queue, my_slot, mbx>>
  BY DEF stats_reinit, osVars, queueVars
<1>2. \A u \in Task : AbstractCall(u)' = AbstractCall(u)
  BY <1>1, SameCall
<1>. QED
  BY <1>1, <1>2 DEF CC!ResetStats

\* Every step of the mailbox is one of the abstract call or changes nothing
\* it sees.
LEMMA NextSimulates == MInv /\ [Next]_mbxVars => [CC!CallNext]_(CC!callVars)
<1>. SUFFICES ASSUME MInv, [Next]_mbxVars PROVE CC!CallNext \/ UNCHANGED CC!callVars
  OBVIOUS
<1>. USE DEF CC!CallNext
<1>1. ASSUME NEW t \in Task, call_start(t) \/ send_again(t)
      PROVE  CC!CallNext \/ UNCHANGED CC!callVars
  BY <1>1, StartSimulates DEF call_start, send_again
<1>2. ASSUME NEW t \in Thread, CallStep(t) PROVE CC!CallNext \/ UNCHANGED CC!callVars
  <2>1. CASE acquire_empty_slot(t) \/ stats_update_read(t) \/ post(t) \/ wait_reply(t)
    BY <2>1, AcquireSlotSimulates, StatsReadSimulates, PostSimulates, WaitReplySimulates
  <2>2. CASE stats_update_add(t)
    BY <2>2, StatsAddSimulates
  <2>3. CASE rx_reply(t)
    BY <2>3, RxReplySimulates
  <2>4. CASE lock_release(t)
    BY <2>4, LockReleaseSimulates
  <2>. QED
    BY <1>2, <2>1, <2>2, <2>3, <2>4 DEF CallStep
<1>3. ASSUME ThreadStep PROVE CC!CallNext \/ UNCHANGED CC!callVars
  BY <1>2, <1>3, ReceiveSimulates DEF ThreadStep, Thread
<1>4. ASSUME reset_stats PROVE CC!CallNext
  BY <1>4, ReinitSimulates DEF reset_stats
<1>5. ASSUME PeerStep PROVE CC!CallNext \/ UNCHANGED CC!callVars
  BY <1>5, SecureReplySimulates, WakeSimulates DEF PeerStep
<1>6. ASSUME Quiescent \/ UNCHANGED mbxVars PROVE UNCHANGED CC!callVars
  <2>1. UNCHANGED <<req, queue, my_slot, mbx, nr_tx>>
    BY <1>6 DEF Quiescent, mbxVars, osVars, queueVars, statVars
  <2>2. \A u \in Task : AbstractCall(u)' = AbstractCall(u)
    BY <2>1, SameCall
  <2>. QED
    BY <2>1, <2>2, NoneMoves
<1>. QED
  BY <1>1, <1>2, <1>3, <1>4, <1>5, <1>6 DEF Next, Thread

\* The initialised mailbox has no call under way and none counted.
LEMMA InitSimulates == MailboxInit => CC!CallInit
<1>. SUFFICES ASSUME MailboxInit PROVE CC!CallInit
  OBVIOUS
<1>1. \A u \in Task : mbx[u] = "idle"
  BY TaskAssumption DEF MailboxInit, Thread
<1>2. \A u \in Task : AbstractCall(u) = "idle"
  BY <1>1, CallPlaces DEF CallAt
<1>. QED
  BY <1>2 DEF MailboxInit, CC!CallInit

(***************************************************************************)
(* In both builds the mailbox implements the safety part of the abstract   *)
(* client call: a call is transmitted once, within the number of slots,    *)
(* served once, and returns only then.                                     *)
(***************************************************************************)
THEOREM MailboxImplementsCall == Spec => CC!CallSafety
<1>1. MailboxInit => CC!CallInit
  BY InitSimulates
<1>2. MInv /\ [Next]_mbxVars => [CC!CallNext]_(CC!callVars)
  BY NextSimulates
<1>. QED
  BY <1>1, <1>2, MailboxInvariance, PTL DEF Spec, CC!CallSafety
=============================================================================
