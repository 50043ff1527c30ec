------------------------------ MODULE IrqTest ------------------------------
(***************************************************************************)
(* The IRQ test services (tests_reg/test/secure_fw/suites/spm/irq/service) *)
(* and the non-secure tests that call them.  The FLIH service counts timer *)
(* interrupts in a handler that preempts its thread; the SLIH service      *)
(* waits for the signal that the SPM asserts.  A build has one of the two  *)
(* (config/check_config.cmake), here the initial value of service.         *)
(*                                                                         *)
(* The thread, the handler and the timer interleave.  External, modelled   *)
(* from how the services use it: the secure timer fires again and again    *)
(* while it runs; whether stopping it takes back an interrupt that is      *)
(* already pending differs between platforms; an interrupt handled as a    *)
(* second-level one is masked until psa_eoi.                               *)
(***************************************************************************)
EXTENDS Naturals

CONSTANT Enough     \* the interrupts that end a FLIH test, 10 in the code

ASSUME EnoughAssumption == Enough \in Nat \ {0}

VARIABLES
    service,                \* "FLIH" or "SLIH"
    pc,                     \* where the service thread is
    msg,                    \* the type of the client's call, "none" if there is none
    test_type,
    flih_timer_triggered,
    timer,                  \* external: the timer runs
    irq,                    \* external: [enabled, pending, masked]
    signal,                 \* external: TFM_TIMER0_IRQ_SIGNAL is asserted
    panic,                  \* psa_panic, or a call the SPM answers with it
    runs                    \* history: handler runs in this test, up to Enough

vars == <<service, pc, msg, test_type, flih_timer_triggered, timer, irq, signal, panic, runs>>
threadVars == <<test_type, flih_timer_triggered>>
envVars == <<service, panic, runs>>

INVALID == "TFM_FLIH_TEST_CASE_INVALID"
FLIH_1 == "TFM_FLIH_TEST_CASE_1"
FLIH_2 == "TFM_FLIH_TEST_CASE_2"
SLIH_1 == "TFM_SLIH_TEST_CASE_1"
Other == "another type"

\* The counter is only compared with Enough, so counts beyond are alike.
MaxCount == Enough + 1
CountUp(n) == IF n < MaxCount THEN n + 1 ELSE n

-----------------------------------------------------------------------------
(* The client and the service's message loop. *)

\* irq_test_slih_case_1, irq_test_flih_case_1 and irq_test_flih_case_2: psa_call
\* blocks until the reply.
client_call(type) ==
    /\ msg = "none" /\ pc = "idle"
    /\ msg' = type
    /\ UNCHANGED <<envVars, threadVars, pc, timer, irq, signal>>

Cases == IF service = "FLIH" THEN {FLIH_1, FLIH_2} ELSE {SLIH_1}

KnownType == msg \in Cases

\* The loop gets the message, flih_test_handle_msg or slih_test_handle_msg
\* dispatches it; an unknown type is answered with PSA_ERROR_PROGRAMMER_ERROR.
handle_msg ==
    /\ pc = "idle" /\ msg # "none"
    /\ IF KnownType
       THEN /\ pc' = IF service = "FLIH" THEN "type" ELSE "enable"
            /\ UNCHANGED msg
       ELSE msg' = "none" /\ UNCHANGED pc
    /\ runs' = 0
    /\ UNCHANGED <<service, panic, threadVars, timer, irq, signal>>

reply ==
    /\ pc = "reply"
    /\ pc' = "idle" /\ msg' = "none"
    /\ UNCHANGED <<envVars, threadVars, timer, irq, signal>>

-----------------------------------------------------------------------------
(* The test cases: flih_test_case_1, flih_test_case_2 and slih_test_case_1. *)

set_type ==
    /\ pc = "type"
    /\ test_type' = msg
    /\ pc' = "reset"
    /\ UNCHANGED <<envVars, msg, flih_timer_triggered, timer, irq, signal>>

\* Mutant of CountAtStart: the count of the previous test stays.
Mut_CountNotReset == flih_timer_triggered

CountAtStart == 0

reset_count ==
    /\ pc = "reset"
    /\ flih_timer_triggered' = CountAtStart
    /\ pc' = "enable"
    /\ UNCHANGED <<envVars, msg, test_type, timer, irq, signal>>

irq_enable ==
    /\ pc = "enable"
    /\ irq' = [irq EXCEPT !.enabled = TRUE]
    /\ pc' = "start"
    /\ UNCHANGED <<envVars, msg, threadVars, timer, signal>>

timer_start ==
    /\ pc = "start"
    /\ timer' = TRUE
    /\ pc' = IF msg = FLIH_1 THEN "check" ELSE "wait"
    /\ UNCHANGED <<envVars, msg, threadVars, irq, signal>>

\* while (flih_timer_triggered < 10): an interrupt can come in before the loop's
\* body, and the thread then sleeps although the count it compared is outdated.
check_count ==
    /\ pc = "check"
    /\ pc' = IF flih_timer_triggered < Enough THEN "wfi" ELSE "stop"
    /\ UNCHANGED <<envVars, msg, threadVars, timer, irq, signal>>

\* __WFI(): only an interrupt that is taken from now on, a pending one included,
\* wakes the thread.
wfi ==
    /\ pc = "wfi"
    /\ pc' = "asleep"
    /\ UNCHANGED <<envVars, msg, threadVars, timer, irq, signal>>

\* psa_wait(timer_irq_signal, PSA_BLOCK) returns nothing but that signal.
wait_signal ==
    /\ pc = "wait" /\ signal
    /\ pc' = "stop"
    /\ UNCHANGED <<envVars, msg, threadVars, timer, irq, signal>>

timer_stop ==
    /\ pc = "stop"
    /\ timer' = FALSE
    /\ \E p \in {irq.pending, FALSE} : irq' = [irq EXCEPT !.pending = p]
    /\ pc' = IF msg = FLIH_2 THEN "reset_signal" ELSE "disable"
    /\ UNCHANGED <<envVars, msg, threadVars, signal>>

\* psa_reset_signal is a programmer error when the signal is not asserted.
reset_signal ==
    /\ pc = "reset_signal"
    /\ panic' = (panic \/ ~signal)
    /\ signal' = FALSE
    /\ pc' = "disable"
    /\ UNCHANGED <<service, runs, msg, threadVars, timer, irq>>

\* Mutant of irq_disable: the interrupt stays enabled.
Mut_StaysEnabled ==
    /\ pc = "disable"
    /\ pc' = IF msg = SLIH_1 THEN "eoi" ELSE "reply"
    /\ UNCHANGED <<envVars, msg, threadVars, timer, irq, signal>>

irq_disable ==
    /\ pc = "disable"
    /\ irq' = [irq EXCEPT !.enabled = FALSE]
    /\ pc' = IF msg = SLIH_1 THEN "eoi" ELSE "reply"
    /\ UNCHANGED <<envVars, msg, threadVars, timer, signal>>

\* psa_eoi, a programmer error when the signal is not asserted.
eoi ==
    /\ pc = "eoi"
    /\ panic' = (panic \/ ~signal)
    /\ signal' = FALSE
    /\ \E p \in {irq.pending, FALSE} : irq' = [irq EXCEPT !.pending = p, !.masked = FALSE]
    /\ pc' = "reply"
    /\ UNCHANGED <<service, runs, msg, threadVars, timer>>

-----------------------------------------------------------------------------
(* The interrupt. *)

timer_fires ==
    /\ timer
    /\ irq' = [irq EXCEPT !.pending = TRUE]
    /\ UNCHANGED <<envVars, pc, msg, threadVars, timer, signal>>

\* Mutant of SignalNow: the signal is asserted from the tenth interrupt on.
Mut_SignalFromTheTenth(n) == n >= Enough

SignalNow(n) == n = Enough

\* tfm_timer0_irq_flih clears the timer's interrupt, counts, and asks for the
\* signal at the tenth interrupt of the second test.
flih_handler ==
    LET n == CountUp(flih_timer_triggered)
    IN  /\ service = "FLIH" /\ irq.enabled /\ irq.pending
        /\ irq' = [irq EXCEPT !.pending = FALSE]
        /\ IF test_type \in {FLIH_1, FLIH_2}
           THEN /\ flih_timer_triggered' = n
                /\ signal' = (signal \/ (test_type = FLIH_2 /\ SignalNow(n)))
                /\ UNCHANGED panic
           ELSE /\ panic' = TRUE
                /\ UNCHANGED <<flih_timer_triggered, signal>>
        /\ runs' = IF runs < Enough THEN runs + 1 ELSE runs
        /\ pc' = IF pc = "asleep" THEN "check" ELSE pc
        /\ UNCHANGED <<service, msg, test_type, timer>>

\* External: __WFI() returns for whatever other interrupt the platform has.
other_interrupt ==
    /\ pc = "asleep"
    /\ pc' = "check"
    /\ UNCHANGED <<envVars, msg, threadVars, timer, irq, signal>>

\* External: the SPM masks the interrupt and asserts the signal.
slih_interrupt ==
    /\ service = "SLIH" /\ irq.enabled /\ irq.pending /\ ~irq.masked
    /\ irq' = [irq EXCEPT !.pending = FALSE, !.masked = TRUE]
    /\ signal' = TRUE
    /\ runs' = IF runs < Enough THEN runs + 1 ELSE runs
    /\ UNCHANGED <<service, panic, pc, msg, threadVars, timer>>

-----------------------------------------------------------------------------
Init ==
    /\ service \in {"FLIH", "SLIH"}
    /\ pc = "idle" /\ msg = "none"
    /\ test_type = INVALID
    /\ flih_timer_triggered = 0
    /\ timer = FALSE
    /\ irq = [enabled |-> FALSE, pending |-> FALSE, masked |-> FALSE]
    /\ signal = FALSE
    /\ panic = FALSE
    /\ runs = 0

ThreadStep ==
    \/ handle_msg \/ reply \/ set_type \/ reset_count \/ irq_enable \/ timer_start
    \/ check_count \/ wfi \/ wait_signal \/ timer_stop \/ reset_signal \/ irq_disable \/ eoi

Handler == flih_handler \/ slih_interrupt

Next ==
    \/ \E type \in {FLIH_1, FLIH_2, SLIH_1, Other} : client_call(type)
    \/ ThreadStep \/ timer_fires \/ Handler \/ other_interrupt

Spec == Init /\ [][Next]_vars

\* The thread is scheduled, the timer keeps firing while it runs, and an enabled
\* interrupt is taken.  Nothing promises another interrupt.
FairSpec == Spec /\ WF_vars(ThreadStep) /\ WF_vars(timer_fires) /\ WF_vars(Handler)

-----------------------------------------------------------------------------
(* Properties. *)

\* Between two tests the timer is off, its interrupt is disabled and its signal
\* is not asserted, although interrupts may come in until the very end of a
\* test: a signal left behind would end the next test before its interrupts and
\* make the message loop spin.
CleanBetweenTests ==
    pc \in {"idle", "reply"} => ~timer /\ ~irq.enabled /\ ~irq.masked /\ ~signal

\* Neither the handler's nor the SPM's panic is reached: no interrupt is handled
\* before a test has set its type, and a signal is cleared only when asserted.
NoPanic == ~panic

\* The thread writes what the handler reads only while the handler cannot run:
\* "the execution flow ensures there are no race conditions for test_type".
NoRaceWithHandler ==
    [][(test_type' # test_type \/ flih_timer_triggered' < flih_timer_triggered)
        => ~irq.enabled]_vars

\* A test ends only after the handler has run often enough in this very test.
EnoughRuns ==
    pc \in {"stop", "reset_signal", "disable", "eoi", "reply"} =>
        runs >= IF service = "FLIH" THEN Enough ELSE 1

\* Every test that is called ends, although the thread may fall asleep after the
\* last interrupt it was waiting for, handled between comparison and __WFI(): the
\* timer, which only the thread stops, wakes it once more.
TestEnds == (msg # "none") ~> (msg = "none")
=============================================================================
