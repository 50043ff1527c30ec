--------------------------- MODULE IrqTest_proofs ---------------------------
(***************************************************************************)
(* The safety of the IRQ test services for every number of interrupts that *)
(* a FLIH test asks for.  The inductive invariant ties the hardware's      *)
(* state to the place of the thread (Placed), the handler's counter to the *)
(* history variable (FlihCounts), and says when the signal is asserted     *)
(* (FlihSignal, SlihSignal): it is the counter's passing Enough only once  *)
(* that keeps a late interrupt from asserting the signal again after       *)
(* psa_reset_signal.                                                       *)
(***************************************************************************)
EXTENDS IrqTest, TLAPS

Places == {"idle", "type", "reset", "enable", "start", "check", "wfi", "asleep", "wait",
           "stop", "reset_signal", "disable", "eoi", "reply"}

\* The places at which the interrupt is enabled.
Open == {"start", "check", "wfi", "asleep", "wait", "stop", "reset_signal", "disable"}

\* The numbers of the services.
Numbers ==
    /\ flih_timer_triggered \in Nat /\ flih_timer_triggered <= MaxCount
    /\ runs \in Nat /\ runs <= Enough

\* The types of the variables of the services and of the hardware.
TypeOK ==
    /\ service \in {"FLIH", "SLIH"}
    /\ pc \in Places
    /\ msg \in {"none", FLIH_1, FLIH_2, SLIH_1, Other}
    /\ test_type \in {INVALID, FLIH_1, FLIH_2}
    /\ timer \in BOOLEAN
    /\ irq \in [enabled : BOOLEAN, pending : BOOLEAN, masked : BOOLEAN]
    /\ signal \in BOOLEAN
    /\ panic \in BOOLEAN
    /\ Numbers

\* The handler has run in this test: often enough for FLIH, at all.
Full == runs = Enough
Fired == runs >= 1

\* Each place belongs to the test cases whose code passes it.
Placed ==
    /\ pc # "idle" => msg \in Cases
    /\ pc \in {"check", "wfi", "asleep"} => msg = FLIH_1
    /\ pc = "wait" => msg # FLIH_1
    /\ pc = "reset_signal" => msg = FLIH_2
    /\ pc = "eoi" => msg = SLIH_1
    /\ pc \in {"type", "reset"} => service = "FLIH"
    /\ irq.enabled <=> pc \in Open
    /\ timer => pc \in {"check", "wfi", "asleep", "wait", "stop"}
    /\ service = "FLIH" => ~irq.masked
    /\ service = "FLIH" /\ pc \notin {"idle", "type"} => test_type = msg

\* The counter starts at 0 and counts the runs.
FlihCounts == service = "FLIH" =>
    /\ pc \in {"type", "reset", "enable"} => runs = 0
    /\ pc = "enable" => flih_timer_triggered = 0
    /\ pc \in Open => runs = IF flih_timer_triggered < Enough
                             THEN flih_timer_triggered ELSE Enough

\* When the signal of a FLIH test is asserted, and which places it leads to.
FlihSignal == service = "FLIH" =>
    /\ signal => msg = FLIH_2 /\ pc \in {"start", "wait", "stop", "reset_signal"} /\ Full
    /\ pc \in {"stop", "reset_signal"} /\ msg = FLIH_2 => signal
    /\ pc \in {"stop", "reset_signal", "disable", "reply"} => Full

\* The same for a SLIH test.
SlihSignal == service = "SLIH" =>
    /\ irq.masked <=> signal
    /\ signal => pc \in Open \cup {"eoi"} /\ Fired
    /\ pc \in {"stop", "disable", "eoi"} => signal
    /\ pc = "reply" => Fired

IInv == TypeOK /\ Placed /\ FlihCounts /\ FlihSignal /\ SlihSignal /\ ~panic

-----------------------------------------------------------------------------
USE DEF INVALID, FLIH_1, FLIH_2, SLIH_1, Other, Places, Open

\* The assumption in the form the arithmetic needs.
LEMMA EnoughFact == Enough \in Nat /\ Enough >= 1
  BY EnoughAssumption

\* Every initial state of the services satisfies the invariant.
LEMMA InitInvariant == Init => IInv
<1> SUFFICES ASSUME Init PROVE IInv
  OBVIOUS
<1>1. Numbers
  BY EnoughFact DEF Init, Numbers, MaxCount
<1>2. TypeOK
  BY <1>1 DEF Init, TypeOK
<1>3. Placed /\ ~panic
  BY DEF Init, Placed
<1>4. FlihCounts
  BY DEF Init, FlihCounts
<1>5. FlihSignal /\ SlihSignal
  BY DEF Init, FlihSignal, SlihSignal
<1> QED
  BY <1>2, <1>3, <1>4, <1>5 DEF IInv

\* A step that leaves the counter and the history alone changes no number.
LEMMA SameNumbers ==
    ASSUME UNCHANGED <<flih_timer_triggered, runs>>
    PROVE  /\ Numbers => Numbers'
           /\ Full' <=> Full
           /\ Fired' <=> Fired
  BY DEF Numbers, Full, Fired, MaxCount

\* A run of tfm_timer0_irq_flih: the history follows the counter, and the signal
\* is asked for exactly when the counter reaches Enough.
LEMMA HandlerCounts ==
    ASSUME Numbers,
           flih_timer_triggered' = CountUp(flih_timer_triggered),
           runs' = IF runs < Enough THEN runs + 1 ELSE runs
    PROVE  /\ Numbers'
           /\ Full => Full'
           /\ runs = (IF flih_timer_triggered < Enough THEN flih_timer_triggered ELSE Enough)
              => /\ runs' = IF flih_timer_triggered' < Enough
                            THEN flih_timer_triggered' ELSE Enough
                 /\ SignalNow(CountUp(flih_timer_triggered)) => Full' /\ ~Full
  BY EnoughFact DEF Numbers, Full, MaxCount, CountUp, SignalNow

\* Every step of the thread, the timer and the interrupt keeps the invariant.
LEMMA StepInvariant == IInv /\ [Next]_vars => IInv'
<1> SUFFICES ASSUME IInv, [Next]_vars PROVE IInv'
  OBVIOUS
<1>0. TypeOK /\ Numbers /\ Placed /\ FlihCounts /\ FlihSignal /\ SlihSignal /\ ~panic
  BY DEF IInv, TypeOK
<1> USE <1>0 DEF Cases, envVars, threadVars
<1> DEFINE Same == /\ UNCHANGED <<flih_timer_triggered, runs>>
                   /\ Numbers' /\ (Full' <=> Full) /\ (Fired' <=> Fired)
<1>1. ASSUME NEW type \in {FLIH_1, FLIH_2, SLIH_1, Other}, client_call(type) PROVE IInv'
  <2>1. Same
    BY <1>1, SameNumbers DEF client_call
  <2>2. TypeOK' /\ Placed' /\ ~panic'
    BY <1>1, <2>1 DEF client_call, TypeOK, Placed, FlihSignal, SlihSignal
  <2>3. FlihCounts'
    BY <1>1, <2>1 DEF client_call, FlihCounts, TypeOK, Placed
  <2>4. FlihSignal' /\ SlihSignal'
    BY <1>1, <2>1 DEF client_call, TypeOK, Placed, FlihCounts, FlihSignal, SlihSignal
  <2> QED
    BY <2>2, <2>3, <2>4 DEF IInv
<1>2. CASE handle_msg
  <2>1. Numbers'
    BY <1>2, EnoughFact DEF handle_msg, KnownType, Numbers, MaxCount
  <2>2. TypeOK' /\ Placed' /\ ~panic'
    BY <1>2, <2>1 DEF handle_msg, KnownType, TypeOK, Placed, FlihSignal, SlihSignal
  <2>3. FlihCounts'
    BY <1>2 DEF handle_msg, KnownType, FlihCounts, Placed
  <2>4. FlihSignal' /\ SlihSignal'
    BY <1>2, <2>1 DEF handle_msg, KnownType, TypeOK, Placed, FlihCounts, FlihSignal, SlihSignal
  <2> QED
    BY <2>2, <2>3, <2>4 DEF IInv
<1>3. CASE reply
  <2>1. Same
    BY <1>3, SameNumbers DEF reply
  <2>2. TypeOK' /\ Placed' /\ ~panic'
    BY <1>3, <2>1 DEF reply, TypeOK, Placed, FlihSignal, SlihSignal
  <2>3. FlihCounts'
    BY <1>3, <2>1 DEF reply, FlihCounts, TypeOK, Placed
  <2>4. FlihSignal' /\ SlihSignal'
    BY <1>3, <2>1 DEF reply, TypeOK, Placed, FlihCounts, FlihSignal, SlihSignal
  <2> QED
    BY <2>2, <2>3, <2>4 DEF IInv
<1>4. CASE set_type
  <2>1. Same
    BY <1>4, SameNumbers DEF set_type
  <2>2. TypeOK' /\ Placed' /\ ~panic'
    BY <1>4, <2>1 DEF set_type, TypeOK, Placed, FlihSignal, SlihSignal
  <2>3. FlihCounts'
    BY <1>4, <2>1 DEF set_type, FlihCounts, TypeOK, Placed
  <2>4. FlihSignal' /\ SlihSignal'
    BY <1>4, <2>1 DEF set_type, TypeOK, Placed, FlihCounts, FlihSignal, SlihSignal
  <2> QED
    BY <2>2, <2>3, <2>4 DEF IInv
<1>5. CASE reset_count
  <2>1. Numbers' /\ (Full' <=> Full) /\ (Fired' <=> Fired)
    BY <1>5, EnoughFact DEF reset_count, CountAtStart, Numbers, Full, Fired, MaxCount
  <2>2. TypeOK' /\ Placed' /\ ~panic'
    BY <1>5, <2>1 DEF reset_count, CountAtStart, TypeOK, Placed, FlihSignal, SlihSignal
  <2>3. FlihCounts'
    BY <1>5 DEF reset_count, CountAtStart, FlihCounts
  <2>4. FlihSignal' /\ SlihSignal'
    BY <1>5, <2>1 DEF reset_count, CountAtStart, TypeOK, Placed, FlihCounts, FlihSignal, SlihSignal
  <2> QED
    BY <2>2, <2>3, <2>4 DEF IInv
<1>6. CASE irq_enable
  <2>1. Same
    BY <1>6, SameNumbers DEF irq_enable
  <2>2. TypeOK' /\ Placed' /\ ~panic'
    BY <1>6, <2>1 DEF irq_enable, TypeOK, Placed, FlihSignal, SlihSignal
  <2>3. FlihCounts'
    BY <1>6, <2>1, EnoughFact DEF irq_enable, FlihCounts
  <2>4. FlihSignal' /\ SlihSignal'
    BY <1>6, <2>1 DEF irq_enable, TypeOK, Placed, FlihCounts, FlihSignal, SlihSignal
  <2> QED
    BY <2>2, <2>3, <2>4 DEF IInv
<1>7. CASE timer_start
  <2>1. Same
    BY <1>7, SameNumbers DEF timer_start
  <2>2. TypeOK' /\ Placed' /\ ~panic'
    BY <1>7, <2>1 DEF timer_start, TypeOK, Placed, FlihSignal, SlihSignal
  <2>3. FlihCounts'
    BY <1>7, <2>1 DEF timer_start, FlihCounts, TypeOK, Placed
  <2>4. FlihSignal' /\ SlihSignal'
    BY <1>7, <2>1 DEF timer_start, TypeOK, Placed, FlihCounts, FlihSignal, SlihSignal
  <2> QED
    BY <2>2, <2>3, <2>4 DEF IInv
<1>8. CASE check_count
  <2>1. Same
    BY <1>8, SameNumbers DEF check_count
  <2>2. TypeOK' /\ Placed' /\ ~panic'
    BY <1>8, <2>1 DEF check_count, TypeOK, Placed, FlihSignal, SlihSignal
  <2>3. FlihCounts'
    BY <1>8, <2>1 DEF check_count, FlihCounts, TypeOK, Placed
  <2>4. service = "FLIH" /\ (pc' = "wfi" \/ Full)
    BY <1>8, EnoughFact DEF check_count, FlihCounts, Full, Numbers, Placed, TypeOK
  <2>5. FlihSignal' /\ SlihSignal'
    BY <1>8, <2>1, <2>4 DEF check_count, TypeOK, Placed, FlihSignal, SlihSignal
  <2> QED
    BY <2>2, <2>3, <2>5 DEF IInv
<1>9. CASE wait_signal
  <2>1. Same
    BY <1>9, SameNumbers DEF wait_signal
  <2>2. TypeOK' /\ Placed' /\ ~panic'
    BY <1>9, <2>1 DEF wait_signal, TypeOK, Placed, FlihSignal, SlihSignal
  <2>3. FlihCounts'
    BY <1>9, <2>1 DEF wait_signal, FlihCounts, TypeOK, Placed
  <2>4. FlihSignal' /\ SlihSignal'
    BY <1>9, <2>1 DEF wait_signal, TypeOK, Placed, FlihCounts, FlihSignal, SlihSignal
  <2> QED
    BY <2>2, <2>3, <2>4 DEF IInv
<1>10. CASE timer_stop
  <2>1. Same
    BY <1>10, SameNumbers DEF timer_stop
  <2>2. TypeOK' /\ Placed' /\ ~panic'
    BY <1>10, <2>1 DEF timer_stop, TypeOK, Placed, FlihSignal, SlihSignal
  <2>3. FlihCounts'
    BY <1>10, <2>1 DEF timer_stop, FlihCounts, TypeOK, Placed
  <2>4. FlihSignal' /\ SlihSignal'
    BY <1>10, <2>1 DEF timer_stop, TypeOK, Placed, FlihCounts, FlihSignal, SlihSignal
  <2> QED
    BY <2>2, <2>3, <2>4 DEF IInv
<1>11. CASE reset_signal
  <2>1. Same
    BY <1>11, SameNumbers DEF reset_signal
  <2>2. TypeOK' /\ Placed' /\ ~panic'
    BY <1>11, <2>1 DEF reset_signal, TypeOK, Placed, FlihSignal, SlihSignal
  <2>3. FlihCounts'
    BY <1>11, <2>1 DEF reset_signal, FlihCounts, TypeOK, Placed
  <2>4. FlihSignal' /\ SlihSignal'
    BY <1>11, <2>1 DEF reset_signal, TypeOK, Placed, FlihCounts, FlihSignal, SlihSignal
  <2> QED
    BY <2>2, <2>3, <2>4 DEF IInv
<1>12. CASE irq_disable
  <2>1. Same
    BY <1>12, SameNumbers DEF irq_disable
  <2>2. TypeOK' /\ Placed' /\ ~panic'
    BY <1>12, <2>1 DEF irq_disable, TypeOK, Placed, FlihSignal, SlihSignal
  <2>3. FlihCounts'
    BY <1>12, <2>1 DEF irq_disable, FlihCounts, TypeOK, Placed
  <2>4. FlihSignal' /\ SlihSignal'
    BY <1>12, <2>1 DEF irq_disable, TypeOK, Placed, FlihCounts, FlihSignal, SlihSignal
  <2> QED
    BY <2>2, <2>3, <2>4 DEF IInv
<1>13. CASE eoi
  <2>1. Same
    BY <1>13, SameNumbers DEF eoi
  <2>2. TypeOK' /\ Placed' /\ ~panic'
    BY <1>13, <2>1 DEF eoi, TypeOK, Placed, FlihSignal, SlihSignal
  <2>3. FlihCounts'
    BY <1>13, <2>1 DEF eoi, FlihCounts, TypeOK, Placed
  <2>4. FlihSignal' /\ SlihSignal'
    BY <1>13, <2>1 DEF eoi, TypeOK, Placed, FlihCounts, FlihSignal, SlihSignal
  <2> QED
    BY <2>2, <2>3, <2>4 DEF IInv
<1>14. CASE timer_fires
  <2>1. Same
    BY <1>14, SameNumbers DEF timer_fires
  <2>2. TypeOK' /\ Placed' /\ ~panic'
    BY <1>14, <2>1 DEF timer_fires, TypeOK, Placed, FlihSignal, SlihSignal
  <2>3. FlihCounts'
    BY <1>14, <2>1 DEF timer_fires, FlihCounts, TypeOK, Placed
  <2>4. FlihSignal' /\ SlihSignal'
    BY <1>14, <2>1 DEF timer_fires, TypeOK, Placed, FlihCounts, FlihSignal, SlihSignal
  <2> QED
    BY <2>2, <2>3, <2>4 DEF IInv
<1>15. CASE flih_handler
  <2>1. test_type = msg /\ msg \in {FLIH_1, FLIH_2} /\ pc \in Open /\ service = "FLIH"
    BY <1>15 DEF flih_handler, Placed
  <2>2. /\ flih_timer_triggered' = CountUp(flih_timer_triggered)
        /\ runs' = IF runs < Enough THEN runs + 1 ELSE runs
        /\ signal' = (signal \/ (test_type = FLIH_2 /\ SignalNow(CountUp(flih_timer_triggered))))
        /\ irq' = [irq EXCEPT !.pending = FALSE]
        /\ pc' = IF pc = "asleep" THEN "check" ELSE pc
        /\ UNCHANGED <<service, msg, test_type, timer, panic>>
    BY <2>1, <1>15 DEF flih_handler
  <2>3. runs = IF flih_timer_triggered < Enough THEN flih_timer_triggered ELSE Enough
    BY <2>1 DEF FlihCounts
  <2>4. /\ Numbers'
        /\ Full => Full'
        /\ runs' = IF flih_timer_triggered' < Enough THEN flih_timer_triggered' ELSE Enough
        /\ SignalNow(CountUp(flih_timer_triggered)) => Full' /\ ~Full
    BY <2>2, <2>3, HandlerCounts
  <2>5. TypeOK' /\ Placed' /\ ~panic'
    BY <2>1, <2>2, <2>4 DEF TypeOK, Placed
  <2>6. FlihCounts'
    BY <2>1, <2>2, <2>4 DEF FlihCounts
  <2>7. FlihSignal' /\ SlihSignal'
    BY <2>1, <2>2, <2>4 DEF TypeOK, Placed, FlihSignal, SlihSignal
  <2> QED
    BY <2>5, <2>6, <2>7 DEF IInv
<1>16. CASE slih_interrupt
  <2>1. Numbers' /\ Fired'
    BY <1>16, EnoughFact DEF slih_interrupt, Numbers, Fired, MaxCount
  <2>2. TypeOK' /\ Placed' /\ ~panic'
    BY <1>16, <2>1 DEF slih_interrupt, TypeOK, Placed, FlihSignal, SlihSignal
  <2>3. FlihCounts'
    BY <1>16 DEF slih_interrupt, FlihCounts
  <2>4. FlihSignal' /\ SlihSignal'
    BY <1>16, <2>1 DEF slih_interrupt, TypeOK, Placed, FlihCounts, FlihSignal, SlihSignal
  <2> QED
    BY <2>2, <2>3, <2>4 DEF IInv
<1>17. CASE UNCHANGED vars
  <2>1. Same
    BY <1>17, SameNumbers DEF vars
  <2>2. TypeOK' /\ Placed' /\ ~panic'
    BY <1>17, <2>1 DEF vars, TypeOK, Placed, FlihSignal, SlihSignal
  <2>3. FlihCounts'
    BY <1>17, <2>1 DEF vars, FlihCounts, TypeOK, Placed
  <2>4. FlihSignal' /\ SlihSignal'
    BY <1>17, <2>1 DEF vars, TypeOK, Placed, FlihCounts, FlihSignal, SlihSignal
  <2> QED
    BY <2>2, <2>3, <2>4 DEF IInv
<1>18. CASE wfi
  <2>1. Same
    BY <1>18, SameNumbers DEF wfi
  <2>2. TypeOK' /\ Placed' /\ ~panic'
    BY <1>18, <2>1 DEF wfi, TypeOK, Placed, FlihSignal, SlihSignal
  <2>3. FlihCounts'
    BY <1>18, <2>1 DEF wfi, FlihCounts, TypeOK, Placed
  <2>4. FlihSignal' /\ SlihSignal'
    BY <1>18, <2>1 DEF wfi, TypeOK, Placed, FlihCounts, FlihSignal, SlihSignal
  <2> QED
    BY <2>2, <2>3, <2>4 DEF IInv
<1>19. CASE other_interrupt
  <2>1. Same
    BY <1>19, SameNumbers DEF other_interrupt
  <2>2. TypeOK' /\ Placed' /\ ~panic'
    BY <1>19, <2>1 DEF other_interrupt, TypeOK, Placed, FlihSignal, SlihSignal
  <2>3. FlihCounts'
    BY <1>19, <2>1 DEF other_interrupt, FlihCounts, TypeOK, Placed
  <2>4. FlihSignal' /\ SlihSignal'
    BY <1>19, <2>1 DEF other_interrupt, TypeOK, Placed, FlihCounts, FlihSignal, SlihSignal
  <2> QED
    BY <2>2, <2>3, <2>4 DEF IInv
<1> QED
  BY <1>1, <1>2, <1>3, <1>4, <1>5, <1>6, <1>7, <1>8, <1>9, <1>10, <1>11, <1>12, <1>13,
     <1>14, <1>15, <1>16, <1>17, <1>18, <1>19 DEF Next, ThreadStep, Handler

\* The invariant holds in every reachable state.
LEMMA Invariance == Spec => []IInv
  BY InitInvariant, StepInvariant, PTL DEF Spec

-----------------------------------------------------------------------------
\* A test leaves timer, interrupt and signal as it found them, whatever the
\* handler did between the last check and irq_disable.
THEOREM CleanBetween == Spec => []CleanBetweenTests
<1>1. IInv => CleanBetweenTests
  BY DEF IInv, TypeOK, Placed, FlihCounts, FlihSignal, SlihSignal, CleanBetweenTests, Cases
<1> QED
  BY <1>1, Invariance, PTL

\* tfm_timer0_irq_flih never meets a type it does not know, and psa_reset_signal
\* and psa_eoi are only called while the signal is asserted.
THEOREM NeverPanics == Spec => []NoPanic
<1>1. IInv => NoPanic
  BY DEF IInv, NoPanic
<1> QED
  BY <1>1, Invariance, PTL

\* A test case is left only after its own Enough interrupts (SLIH: after one).
THEOREM RunsBeforeEnd == Spec => []EnoughRuns
<1>1. IInv => EnoughRuns
  <2> SUFFICES ASSUME IInv, pc \in {"stop", "reset_signal", "disable", "eoi", "reply"}
               PROVE  runs >= IF service = "FLIH" THEN Enough ELSE 1
    BY DEF EnoughRuns
  <2>1. CASE service = "FLIH"
    <3>1. Full
      BY <2>1 DEF IInv, TypeOK, Placed, FlihSignal, Cases
    <3> QED
      BY <3>1, <2>1, EnoughFact DEF Full
  <2>2. CASE service = "SLIH"
    <3>1. Fired
      BY <2>2 DEF IInv, TypeOK, Placed, SlihSignal, Cases
    <3> QED
      BY <3>1, <2>2 DEF Fired
  <2> QED
    BY <2>1, <2>2 DEF IInv, TypeOK
<1> QED
  BY <1>1, Invariance, PTL

\* The thread never writes test_type, and never sets the counter back, while the
\* handler may run.
THEOREM NoRace == Spec => NoRaceWithHandler
<1> DEFINE Safe == (test_type' # test_type \/ flih_timer_triggered' < flih_timer_triggered)
                       => ~irq.enabled
<1>1. IInv /\ [Next]_vars => [Safe]_vars
  <2> SUFFICES ASSUME IInv, Next PROVE Safe
    OBVIOUS
  <2>0. Numbers /\ Placed /\ pc \in Places
    BY DEF IInv, TypeOK
  <2>1. CASE set_type \/ reset_count
    BY <2>0, <2>1 DEF set_type, reset_count, Placed
  <2>2. CASE flih_handler
    <3>1. /\ UNCHANGED test_type
          /\ \/ flih_timer_triggered' = CountUp(flih_timer_triggered)
             \/ UNCHANGED flih_timer_triggered
      BY <2>2 DEF flih_handler
    <3>2. ~(flih_timer_triggered' < flih_timer_triggered)
      BY <2>0, <3>1, EnoughFact DEF Numbers, CountUp, MaxCount
    <3> QED
      BY <3>1, <3>2
  <2>3. CASE UNCHANGED threadVars
    <3>1. ~(flih_timer_triggered' < flih_timer_triggered)
      BY <2>0, <2>3 DEF Numbers, threadVars
    <3> QED
      BY <3>1, <2>3 DEF threadVars
  <2> QED
    BY <2>1, <2>2, <2>3 DEF Next, ThreadStep, Handler, client_call, handle_msg, reply, irq_enable,
       timer_start, check_count, wfi, wait_signal, timer_stop, reset_signal, irq_disable, eoi,
       timer_fires, slih_interrupt, other_interrupt
<1> QED
  BY <1>1, Invariance, PTL DEF Spec, NoRaceWithHandler
=============================================================================
