-------------------------- MODULE NsMailboxClients --------------------------
(***************************************************************************)
(* Tasks that make PSA client calls through the mailbox whenever they      *)
(* like: the environment in which the mailbox by itself is checked.        *)
(***************************************************************************)
EXTENDS NsMailbox

\* Bound on the client calls of a behaviour (nr_tx is a uint32_t in the code).
CONSTANT MaxTx

ASSUME MaxTxAssumption == MaxTx \in Nat

\* A task whose request is on its way through the message queue.
InQueue(t) == mbx[t] = "wait" /\ my_slot[t] = NoSlot

Arriving ==
    {t \in Task : mbx[t] \in {"lock", "slot", "stats_read", "stats_add", "send"} \/ InQueue(t)}

call_start(t) ==
    /\ mbx[t] = "idle" /\ nr_tx + Cardinality(Arriving) < MaxTx
    /\ lock_acquire(t) \/ mq_send(t)

send_again(t) == mbx[t] = "send" /\ mq_send(t)

\* tfm_ns_mailbox_tx_stats_reinit writes its two counters without the lock: the
\* only caller, the multi-core test, does so while no other task is in a call
\* (ChildrenWithinParent in MultiCoreTest), which makes it one step.
reset_stats == (\A t \in Task : mbx[t] = "idle") /\ stats_reinit

\* No task wants to call any more.
Quiescent == (\A t \in Task : mbx[t] = "idle") /\ UNCHANGED mbxVars

Next ==
    \/ \E t \in Task : call_start(t) \/ send_again(t) \/ CallStep(t)
    \/ ThreadStep
    \/ reset_stats
    \/ PeerStep
    \/ Quiescent

Spec == MailboxInit /\ [][Next]_mbxVars

\* RTX's round robin lets every thread of the running priority run, a task that
\* keeps sending too; the secure core serves every request and its interrupt is
\* not masked for good.
Fairness ==
    /\ \A t \in Task : WF_mbxVars(CallStep(t)) /\ WF_mbxVars(send_again(t))
    /\ WF_mbxVars(ThreadStep)
    /\ \A s \in MbxSlot : WF_mbxVars(secure_reply(s))
    /\ WF_mbxVars(wake_task_isr)

FairSpec == Spec /\ Fairness

\* Every client call returns, however many tasks compete for the slots, once it
\* waits for the semaphore or is in the message queue.  A task that finds the
\* queue full only tries again, behind no one and before no one: it gets in, or
\* the calls of other tasks keep returning.
CallReturns ==
    \A t \in Task :
        /\ (mbx[t] \in {"lock", "slot", "wait"}) ~> (mbx[t] = "idle")
        /\ (mbx[t] = "send") ~> (mbx[t] # "send" \/ \E u \in Task : mbx[u] = "idle")

\* The refinement: a call begins when the semaphore or the message queue takes
\* it, is sent when the statistics count it, and served when the secure core
\* replies.  A task that goes on before that has returned early, which the
\* abstract call never does.
AbstractCall(t) ==
    CASE mbx[t] \in {"idle", "send"} -> "idle"
      [] mbx[t] \in {"lock", "slot", "stats_read", "stats_add"} -> "called"
      [] mbx[t] = "post" -> "sent"
      [] InQueue(t) -> IF req = t /\ mbx[MailboxThread] = "post" THEN "sent" ELSE "called"
      [] mbx[t] = "wait" /\ ~InQueue(t) ->
            IF queue[my_slot[t]].state = "pend" THEN "sent" ELSE "served"
      [] mbx[t] = "rx" ->
            IF t \in Using /\ queue[my_slot[t]].state = "woken" THEN "served" ELSE "early"
      [] mbx[t] = "unlock" -> "served"

CC == INSTANCE ClientCall WITH call <- [t \in Task |-> AbstractCall(t)]

\* The mailbox implements the abstract client call, in both builds: no call
\* returns before the secure core has served it, none is served twice, none is
\* outstanding without a slot, and every one returns.
CallSpec == CC!CallSpec
=============================================================================
