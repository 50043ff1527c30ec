----------------------------- MODULE ClientCall -----------------------------
(***************************************************************************)
(* What a PSA client call promises its caller, the abstract specification  *)
(* of the non-secure mailbox: a call is transmitted once, the secure side  *)
(* serves it once, and only then does it return; at most                   *)
(* NUM_MAILBOX_QUEUE_SLOT calls are outstanding; nr_tx counts the          *)
(* transmissions since the statistics were last reset.  NsMailboxClients   *)
(* implements it; the multi-core test suite is specified on top of it.     *)
(***************************************************************************)
EXTENDS Naturals, FiniteSets

CONSTANTS Task, NUM_MAILBOX_QUEUE_SLOT

VARIABLES call, nr_tx

callVars == <<call, nr_tx>>

Outstanding == {t \in Task : call[t] \in {"sent", "served"}}

CallInit == call = [t \in Task |-> "idle"] /\ nr_tx = 0

Begin(t) ==
    /\ call[t] = "idle"
    /\ call' = [call EXCEPT ![t] = "called"]
    /\ UNCHANGED nr_tx

Transmit(t) ==
    /\ call[t] = "called"
    /\ Cardinality(Outstanding) < NUM_MAILBOX_QUEUE_SLOT
    /\ call' = [call EXCEPT ![t] = "sent"]
    /\ nr_tx' = nr_tx + 1

Serve(t) ==
    /\ call[t] = "sent"
    /\ call' = [call EXCEPT ![t] = "served"]
    /\ UNCHANGED nr_tx

Return(t) ==
    /\ call[t] = "served"
    /\ call' = [call EXCEPT ![t] = "idle"]
    /\ UNCHANGED nr_tx

ResetStats == nr_tx' = 0 /\ UNCHANGED call

CallNext ==
    \/ \E t \in Task : Begin(t) \/ Transmit(t) \/ Serve(t) \/ Return(t)
    \/ ResetStats

CallSafety == CallInit /\ [][CallNext]_callVars

\* The semaphore is first come, first served and every request is answered, so
\* that every call returns.
CallSpec ==
    /\ CallSafety
    /\ \A t \in Task :
          /\ SF_callVars(Transmit(t))
          /\ WF_callVars(Serve(t))
          /\ WF_callVars(Return(t))
=============================================================================
